---- MODULE Spec2Model ----
(***************************************************************************)
(* A model of the dispatch-and-state core of vk_bot: MemoryStorage and     *)
(* StateManager, the shared FiniteStateMachine of FSMRegistry, the         *)
(* StateContext facade, VKBot._process_update and VKBot.polling.           *)
(*                                                                         *)
(* Python objects are modelled by value except dictionaries held by the    *)
(* storage, which live in a heap of references so that aliasing between a  *)
(* caller's dictionary and the stored one is visible.                      *)
(***************************************************************************)
EXTENDS Integers, Sequences, FiniteSets, TLC

VARIABLES
    _states,            \* MemoryStorage._states : user id -> state name | None
    _data,              \* MemoryStorage._data   : user id -> reference | NoRef
    heap,               \* reference -> dictionary (the dict objects alive)
    held,               \* the dictionary a caller holds: [ref, origin]
    states,             \* FiniteStateMachine.states : name -> StateInfo
    transitions,        \* FiniteStateMachine.transitions (insertion order)
    on_any_transition,  \* FiniteStateMachine.on_any_transition is registered
    current_state,      \* FiniteStateMachine.current_state (scratch pointer)
    contexts,           \* user ids for which a StateContext object exists
    message_handlers,         \* VKBot.message_handlers (registration order)
    callback_query_handlers,  \* VKBot.callback_query_handlers
    middleware_handlers,      \* VKBot.middleware_handlers
    lp_server,          \* VKBot.lp_server : the cached session | NoServer
    _polling,           \* VKBot._polling : the stop flag
    non_stop,           \* the non_stop argument of the running polling()
    pc,                 \* where polling() stands
    raw_updates,        \* the response of the last fetch
    parsed_updates,     \* the events parsed from it
    dispatched,         \* the events of this iteration given to _process_update
    redelivery,         \* the cursor and the handled events of a failed iteration
    writers,            \* the threads inside StateManager.update_data
    trace,              \* callbacks invoked by the last operation, in order
    last                \* the last operation, its arguments and its outcome

vars == <<_states, _data, heap, held, states, transitions, on_any_transition,
          current_state, contexts, message_handlers, callback_query_handlers,
          middleware_handlers, lp_server, _polling, non_stop, pc, raw_updates,
          parsed_updates, dispatched, redelivery, writers, trace, last>>

storeVars == <<_states, _data, heap, held>>
fsmConfigVars == <<states, transitions, on_any_transition>>
registryVars == <<message_handlers, callback_query_handlers, middleware_handlers>>
pollVars == <<lp_server, _polling, non_stop, pc, raw_updates, parsed_updates,
              dispatched, redelivery>>

-----------------------------------------------------------------------------
(* Values *)

Users == {1, 2}
NoneId == 0
UserIds == Users \cup {NoneId}

None == "None"
StateNames == {"s1", "s2"}
Wildcard == "*"

EmptyDict == << >>
\* keyword arguments given to update_data, dictionaries a caller builds, and
\* the item a caller writes into a dictionary it holds
KwArgs == {("a" :> 1), ("b" :> 2)}
Literals == {("a" :> 2)}
Mutations == {("b" :> 2)}

NoRef == 0
Refs == 1 .. (Cardinality(Users) + 2)

NoExc == "no exception"

\* VKBot.lp_server is None; no fetch was made
NoServer == [server |-> "", key |-> "", ts |-> -1]
NoResponse == [has_ts |-> FALSE, ts |-> -1, has_updates |-> FALSE, updates |-> << >>]

\* no iteration has failed since the cursor was last advanced
NoRedelivery == [failed |-> FALSE, ts |-> -1, handled |-> << >>]

-----------------------------------------------------------------------------
(* Dictionaries and the heap *)

\* dict.update(kw): keys of kw overwrite, the other keys are kept
dict_update_replace(d, kw) == kw
dict_update(d, kw) ==
    [k \in (DOMAIN d) \cup (DOMAIN kw) |-> IF k \in DOMAIN kw THEN kw[k] ELSE d[k]]

\* the least reference not in use
NewRef(hp) ==
    CHOOSE r \in Refs \ DOMAIN hp : \A q \in Refs \ DOMAIN hp : r <= q

\* the references reachable from the storage and from the caller
Live(M) == ({M.dt[u] : u \in UserIds} \cup {M.held.ref}) \ {NoRef}

\* The places a reference is kept, in a fixed order: the storage slot of each
\* user id, then the caller's variable.
Slots == 1 .. (Cardinality(UserIds) + 1)
SlotRef(M, i) == IF i <= Cardinality(UserIds) THEN M.dt[i - 1] ELSE M.held.ref
\* Object identity carries no information but equality: the live references
\* are renamed to 1, 2, ... in the order of the first slot that keeps them.
Rename(M, r) ==
    IF r = NoRef THEN NoRef
    ELSE LET i == CHOOSE i \in Slots :
                    SlotRef(M, i) = r /\ \A j \in 1 .. (i - 1) : SlotRef(M, j) # r
         IN  Cardinality({SlotRef(M, j) : j \in 1 .. i} \ {NoRef})

\* dictionaries nobody references are gone
Collect(M) ==
    LET live == Live(M)
        name == [r \in live |-> Rename(M, r)]
    IN  [n \in {name[r] : r \in live} |-> M.hp[CHOOSE r \in live : name[r] = n]]

NoHeld == [ref |-> NoRef, origin |-> "none", stored |-> FALSE]

\* The threads that call StateManager.update_data: where each stands, its
\* arguments and its local variable data; acked keeps, per user, the keys of
\* the calls that returned, and overlapped whether a call ever started
\* while another one was under way.
Writers == {"w1", "w2"}
IdleWriter == [pc |-> "idle", user |-> NoneId, kw |-> EmptyDict, data |-> EmptyDict]
NoWriters ==
    [proc |-> [w \in Writers |-> IdleWriter],
     acked |-> [u \in UserIds |-> {}],
     overlapped |-> FALSE]

\* The program state an operation works on; exc is the exception in flight,
\* api is how the VK API answers the calls the operation makes.
World ==
    [st |-> _states, dt |-> _data, hp |-> heap, held |-> held,
     cur |-> current_state, log |-> << >>, exc |-> NoExc, api |-> "ok"]

Commit(M) ==
    /\ _states' = M.st
    /\ _data' = [u \in UserIds |-> Rename(M, M.dt[u])]
    /\ heap' = Collect(M)
    /\ held' = [M.held EXCEPT !.ref = Rename(M, @)]
    /\ current_state' = M.cur
    /\ trace' = M.log

-----------------------------------------------------------------------------
(* MemoryStorage *)

get_state(M, u) == M.st[u]

set_state(M, u, s) == [M EXCEPT !.st[u] = s]

\* self._data.get(user_id, {}) : the stored dictionary, or an empty one
StoredDict(M, u) == IF M.dt[u] = NoRef THEN EmptyDict ELSE M.hp[M.dt[u]]

\* mutant: get_data without .copy() hands out the stored dictionary itself
get_data_alias(M, u) ==
    IF M.dt[u] # NoRef THEN [m |-> M, ref |-> M.dt[u]]
    ELSE LET r == NewRef(M.hp)
         IN  [m |-> [M EXCEPT !.hp = (r :> EmptyDict) @@ @], ref |-> r]

\* get_data returns .copy(): a new dictionary object with the same items
get_data(M, u) ==
    LET r == NewRef(M.hp)
    IN  [m |-> [M EXCEPT !.hp = (r :> StoredDict(M, u)) @@ @], ref |-> r]

\* set_data stores the reference it is given
set_data(M, u, r) == [M EXCEPT !.dt[u] = r]

\* mutant: delete forgets the data
delete_state_only(M, u) == [M EXCEPT !.st[u] = None]

delete(M, u) == [M EXCEPT !.st[u] = None, !.dt[u] = NoRef]

-----------------------------------------------------------------------------
(* StateManager *)

\* mutant: update_data stores the keyword arguments alone
update_data_replace(M, u, kw) ==
    LET r == NewRef(M.hp)
    IN  set_data([M EXCEPT !.hp = (r :> kw) @@ @], u, r)

\* data = self.get_data(user_id); data.update(kwargs); self.set_data(user_id, data)
update_data(M, u, kw) ==
    LET g == get_data(M, u)
        upd == [g.m EXCEPT !.hp[g.ref] = dict_update(@, kw)]
    IN  set_data(upd, u, g.ref)

reset(M, u) == delete(M, u)

-----------------------------------------------------------------------------
(* FiniteStateMachine (the instance FSMRegistry holds under "default") *)

\* StateInfo as add_state builds it: the group tag and which hooks are given
StateInfos ==
    {[group |-> None, on_enter |-> FALSE, on_exit |-> FALSE],
     [group |-> "g", on_enter |-> TRUE, on_exit |-> TRUE]}

\* Transition records offered to add_transition; condition names the guard:
\* "none" (no guard), or a guard returning True / False for every context
Rules ==
    {[from_state |-> "s1", to_state |-> "s2", condition |-> "false", priority |-> 1],
     [from_state |-> Wildcard, to_state |-> "s1", condition |-> "true", priority |-> 0],
     [from_state |-> "s1", to_state |-> Wildcard, condition |-> "none", priority |-> 0],
     [from_state |-> Wildcard, to_state |-> Wildcard, condition |-> "none", priority |-> 1]}

\* trans.condition(context)
Guard(condition, u) == condition = "true"

\* sorted(self.transitions, key=lambda x: -x.priority): stable, descending
RECURSIVE InsertByPriority(_, _)
InsertByPriority(s, x) ==
    IF s = << >> THEN <<x>>
    ELSE IF Head(s).priority >= x.priority
         THEN <<Head(s)>> \o InsertByPriority(Tail(s), x)
         ELSE <<x>> \o s

\* the transitions in the order of their declaration
sorted_declared(s) == s

RECURSIVE sorted(_)
sorted(s) ==
    IF s = << >> THEN << >>
    ELSE InsertByPriority(sorted(SubSeq(s, 1, Len(s) - 1)), s[Len(s)])

\* the three tests of the loop body of can_transition
RuleMatches(trans, from_state, to_state) ==
    \/ trans.from_state = from_state /\ trans.to_state = to_state
    \/ trans.from_state = Wildcard /\ trans.to_state = to_state
    \/ trans.from_state = from_state /\ trans.to_state = Wildcard

\* the for loop of can_transition: the first matching rule decides
RECURSIVE ScanRules(_, _, _, _)
ScanRules(ts, from_state, to_state, u) ==
    IF ts = << >> THEN FALSE
    ELSE IF RuleMatches(Head(ts), from_state, to_state)
         THEN (IF Head(ts).condition # "none"
               THEN Guard(Head(ts).condition, u)
               ELSE TRUE)
         ELSE ScanRules(Tail(ts), from_state, to_state, u)

\* can_transition without its test of from_state
can_transition_undeclared(from_state, to_state, u) ==
    IF transitions = << >> THEN TRUE
    ELSE ScanRules(sorted(transitions), from_state, to_state, u)

\* mutant: a declared state may always be re-entered
can_transition_self(from_state, to_state, u) ==
    IF from_state \notin DOMAIN states THEN FALSE
    ELSE IF transitions = << >> \/ from_state = to_state THEN TRUE
    ELSE ScanRules(sorted(transitions), from_state, to_state, u)

can_transition(from_state, to_state, u) ==
    IF from_state \notin DOMAIN states THEN FALSE
    ELSE IF transitions = << >> THEN TRUE
    ELSE ScanRules(sorted(transitions), from_state, to_state, u)

\* A hook is a callback of the application: the model records that it ran
\* and the stored state of the context's user it could read at that moment.
HookCall(M, hook, state, u) ==
    [kind |-> "hook", hook |-> hook, state |-> state, seen |-> M.st[u]]

transition(M, from_state, to_state, u) ==
    LET exit == IF /\ from_state # None
                   /\ from_state \in DOMAIN states
                   /\ states[from_state].on_exit
                THEN <<HookCall(M, "on_exit", from_state, u)>> ELSE << >>
        enter == IF /\ to_state \in DOMAIN states
                    /\ states[to_state].on_enter
                 THEN <<HookCall(M, "on_enter", to_state, u)>> ELSE << >>
        any == IF on_any_transition
               THEN <<HookCall(M, "on_any_transition", to_state, u)>> ELSE << >>
    IN  [M EXCEPT !.log = @ \o exit \o enter \o any, !.cur = to_state]

-----------------------------------------------------------------------------
(* StateContext *)

\* a context that leaves the scratch pointer of the shared FSM where it is
StateContext_unbound(M, u) == M

\* __init__: binds the shared FSM and points its scratch pointer at the user
StateContext(M, u) == [M EXCEPT !.cur = get_state(M, u)]

\* mutant: the transition runs before the gate is consulted
set_transition_first(M, u, state) ==
    LET current == get_state(M, u)
        T == transition(M, current, state, u)
    IN  IF ~can_transition(current, state, u)
        THEN [T EXCEPT !.exc = "ValueError"]
        ELSE set_state(T, u, state)

\* mutant: the new state is persisted before the transition runs
set_persist_first(M, u, state) ==
    LET current == get_state(M, u)
    IN  IF ~can_transition(current, state, u)
        THEN [M EXCEPT !.exc = "ValueError"]
        ELSE transition(set_state(M, u, state), current, state, u)

set(M, u, state) ==
    LET current == get_state(M, u)
    IN  IF ~can_transition(current, state, u)
        THEN [M EXCEPT !.exc = "ValueError"]
        ELSE set_state(transition(M, current, state, u), u, state)

\* mutant: finish clears the entry and the pointer without a transition
finish_no_transition(M, u) == [reset(M, u) EXCEPT !.cur = None]

finish(M, u) ==
    LET M1 == reset(M, u)
        M2 == IF M1.cur # None THEN transition(M1, M1.cur, None, u) ELSE M1
    IN  [M2 EXCEPT !.cur = None]

update(M, u, kw) == update_data(M, u, kw)

\* FiniteStateMachine.is_in_group on the shared instance: False for a null
\* pointer, else "state_info and state_info.group == group", which is None
\* when the pointer's state is not declared
fsm_is_in_group(M, group) ==
    IF M.cur = None THEN "False"
    ELSE IF M.cur \notin DOMAIN states THEN "None"
    ELSE IF states[M.cur].group = group THEN "True"
    ELSE "False"

\* StateContext.is_in_group: False when the user has no stored state, else
\* what the shared FSM answers
is_in_group(M, u, group) ==
    IF get_state(M, u) = None THEN "False" ELSE fsm_is_in_group(M, group)

\* self._manager.set_data(self.user_id, {}) : a new empty dictionary
clear_data(M, u) ==
    LET r == NewRef(M.hp)
    IN  set_data([M EXCEPT !.hp = (r :> EmptyDict) @@ @], u, r)

-----------------------------------------------------------------------------
(* Operations as steps *)

Outcome(M) == IF M.exc = NoExc THEN "ok" ELSE M.exc

Record(op, u, state, kw, M) ==
    last' = [op |-> op, user |-> u, state |-> state, kw |-> kw,
             was |-> _states[u], result |-> Outcome(M)]

\* the operation's result becomes the next state
Step(op, u, state, kw, result) ==
    /\ \E M \in {result} : Commit(M) /\ Record(op, u, state, kw, M)
    /\ UNCHANGED <<registryVars, pollVars, writers>>

NoOp == [op |-> "init", user |-> NoneId, state |-> None, kw |-> EmptyDict,
         was |-> None, result |-> "ok"]

\* VKBot.set_state -> StateManager.set_state -> MemoryStorage.set_state
BotSetState(u, s) ==
    LET M == set_state(World, u, s)
    IN  /\ Step("set_state", u, s, EmptyDict, M)
        /\ UNCHANGED <<fsmConfigVars, contexts>>

\* VKBot.get_state_data / StateContext.data: the caller keeps the result
GetData(u) ==
    LET g == get_data(World, u)
        M == [g.m EXCEPT !.held = [ref |-> g.ref, origin |-> "get_data",
                                      stored |-> FALSE]]
    IN  /\ Step("get_data", u, None, EmptyDict, M)
        /\ UNCHANGED <<fsmConfigVars, contexts>>

\* the caller builds a dictionary of its own
NewDict(kw) ==
    LET r == NewRef(heap)
        M == [World EXCEPT !.hp = (r :> kw) @@ @,
                           !.held = [ref |-> r, origin |-> "literal",
                                     stored |-> FALSE]]
    IN  /\ Step("new_dict", NoneId, None, kw, M)
        /\ UNCHANGED <<fsmConfigVars, contexts>>

\* StateManager.set_data(user_id, data) with the dictionary the caller holds
\* (last.kw keeps the dictionary that was stored before)
SetData(u) ==
    /\ held.ref # NoRef
    /\ LET M == [set_data(World, u, held.ref) EXCEPT !.held.stored = TRUE]
       IN  /\ Step("set_data", u, None, StoredDict(World, u), M)
    /\ UNCHANGED <<fsmConfigVars, contexts>>

\* VKBot.update_state_data / StateContext.update -> StateManager.update_data
UpdateData(u, kw) ==
    LET M == update(World, u, kw)
    IN  /\ Step("update_data", u, None, kw, M)
        /\ UNCHANGED <<fsmConfigVars, contexts>>

\* StateContext.clear_data
ClearData(u) ==
    LET M == clear_data(World, u)
    IN  /\ Step("clear_data", u, None, EmptyDict, M)
        /\ UNCHANGED <<fsmConfigVars, contexts>>

\* the caller mutates the dictionary it holds: d.update(kw)
MutateHeld(kw) ==
    /\ held.ref # NoRef
    /\ LET M == [World EXCEPT !.hp[held.ref] = dict_update(@, kw)]
       IN  /\ Step("mutate_held", NoneId, None, kw, M)
    /\ UNCHANGED <<fsmConfigVars, contexts>>

\* the caller drops its dictionary
Release ==
    /\ held.ref # NoRef
    /\ LET M == [World EXCEPT !.held = NoHeld]
       IN  /\ Step("release", NoneId, None, EmptyDict, M)
    /\ UNCHANGED <<fsmConfigVars, contexts>>

\* VKBot.reset_state -> StateManager.reset -> MemoryStorage.delete
ResetState(u) ==
    LET M == reset(World, u)
    IN  /\ Step("reset", u, None, EmptyDict, M)
        /\ UNCHANGED <<fsmConfigVars, contexts>>

\* FiniteStateMachine.add_state
add_state(state, info) ==
    /\ states' = (state :> info) @@ states
    /\ Step("add_state", NoneId, state, EmptyDict, World)
    /\ UNCHANGED <<transitions, on_any_transition, contexts>>

\* a bound of the model: the number of transitions declared
MaxTransitions == 2

\* FiniteStateMachine.add_transition
add_transition(rule) ==
    /\ Len(transitions) < MaxTransitions
    /\ transitions' = Append(transitions, rule)
    /\ Step("add_transition", NoneId, None, EmptyDict, World)
    /\ UNCHANGED <<states, on_any_transition, contexts>>

\* fsm.on_any_transition = callback
SetOnAnyTransition ==
    /\ ~on_any_transition
    /\ on_any_transition' = TRUE
    /\ Step("on_any_transition", NoneId, None, EmptyDict, World)
    /\ UNCHANGED <<states, transitions, contexts>>

\* VKBot._get_state_context(user_id): a StateContext is built
NewContext(u) ==
    LET M == StateContext(World, u)
    IN  /\ contexts' = contexts \cup {u}
        /\ Step("StateContext", u, None, EmptyDict, M)
        /\ UNCHANGED fsmConfigVars

\* StateContext.set on the context of user u
CtxSet(u, state) ==
    /\ u \in contexts
    /\ LET M == set(World, u, state)
       IN  /\ Step("set", u, state, EmptyDict, M)
    /\ UNCHANGED <<fsmConfigVars, contexts>>

\* StateContext.finish on the context of user u
CtxFinish(u) ==
    /\ u \in contexts
    /\ LET M == finish(World, u)
       IN  /\ Step("finish", u, None, EmptyDict, M)
    /\ UNCHANGED <<fsmConfigVars, contexts>>

\* a handler finishes on the context it was just given
ContextFinish(u) ==
    LET M == finish(StateContext(World, u), u)
    IN  /\ Step("finish", u, None, EmptyDict, M)
        /\ UNCHANGED <<fsmConfigVars, contexts>>

-----------------------------------------------------------------------------
(* Specifications *)

\* the state after VKBot(token) and FSMRegistry.get_or_create("default")
Init ==
    /\ _states = [u \in UserIds |-> None]
    /\ _data = [u \in UserIds |-> NoRef]
    /\ heap = << >>
    /\ held = NoHeld
    /\ states = << >>
    /\ transitions = << >>
    /\ on_any_transition = FALSE
    /\ current_state = None
    /\ contexts = {}
    /\ message_handlers = << >>
    /\ callback_query_handlers = << >>
    /\ middleware_handlers = << >>
    /\ lp_server = NoServer
    /\ _polling = FALSE
    /\ non_stop = TRUE
    /\ pc = "idle"
    /\ raw_updates = NoResponse
    /\ parsed_updates = << >>
    /\ dispatched = << >>
    /\ redelivery = NoRedelivery
    /\ writers = NoWriters
    /\ trace = << >>
    /\ last = NoOp

\* the storage and its callers
StoreUsers == Users
StoreStates == {"s1"}

NextStore ==
    \/ \E u \in StoreUsers, s \in StoreStates : BotSetState(u, s)
    \/ \E u \in StoreUsers : GetData(u)
    \/ \E d \in Literals : NewDict(d)
    \/ \E u \in StoreUsers : SetData(u)
    \/ \E u \in StoreUsers, kw \in KwArgs : UpdateData(u, kw)
    \/ \E u \in StoreUsers : ClearData(u)
    \/ \E kw \in Mutations : MutateHeld(kw)
    \/ Release
    \/ \E u \in StoreUsers : ResetState(u)
    \/ \E u \in StoreUsers : ContextFinish(u)

SpecStore == Init /\ [][NextStore]_vars

\* one user driving the shared FSM through StateContext
FsmUsers == {1}

NextFSM ==
    \/ \E n \in StateNames, i \in StateInfos : add_state(n, i)
    \/ \E r \in Rules : add_transition(r)
    \/ SetOnAnyTransition
    \/ \E u \in FsmUsers, s \in StateNames : BotSetState(u, s)
    \/ \E u \in FsmUsers : UpdateData(u, ("a" :> 1))
    \/ \E u \in FsmUsers : NewContext(u)
    \/ \E u \in FsmUsers, s \in StateNames : CtxSet(u, s)
    \/ \E u \in FsmUsers : CtxFinish(u)

SpecFSM == Init /\ [][NextFSM]_vars

-----------------------------------------------------------------------------
(* What the storage answers *)

DictOf(dt, hp, u) == IF dt[u] = NoRef THEN EmptyDict ELSE hp[dt[u]]

\* what get_data(u) returns now, and after the step
Data(u) == DictOf(_data, heap, u)
DataAfter(u) == DictOf(_data', heap', u)

StoredRefs == {_data[u] : u \in UserIds} \ {NoRef}

-----------------------------------------------------------------------------
(* StateContext.set *)

\* C4: a StateContext.set(t) whose can_transition(current, t) is false raises
\* ValueError and changes nothing: the stored state and data of every user,
\* the scratch pointer, and no hook runs.
C4_RejectedSetMutatesNothing ==
    [][(last'.op = "set" /\ ~can_transition(_states[last'.user], last'.state, last'.user))
        => /\ last'.result = "ValueError"
           /\ _states' = _states
           /\ \A u \in UserIds : DataAfter(u) = Data(u)
           /\ current_state' = current_state
           /\ trace' = << >>]_vars

\* a rejected set by a user who has a state, data, and a scratch pointer that
\* points elsewhere
C4_Witness ==
    /\ last.op = "set"
    /\ last.result = "ValueError"
    /\ _states[last.user] \in StateNames
    /\ Data(last.user) # EmptyDict
    /\ current_state # _states[last.user]
    /\ states # << >>

\* C5: a StateContext.set(t) whose can_transition(current, t) is true runs
\* FSM.transition(current, t) before it persists t: every hook sees the old
\* stored state; when set returns, the stored state and the scratch pointer
\* are t.
C5_AcceptedSetTransitionsThenPersists ==
    [][(last'.op = "set" /\ can_transition(_states[last'.user], last'.state, last'.user))
        => /\ last'.result = "ok"
           /\ _states'[last'.user] = last'.state
           /\ current_state' = last'.state
           /\ \A i \in 1 .. Len(trace') : trace'[i].seen = _states[last'.user]
           /\ trace' = transition(World, _states[last'.user], last'.state, last'.user).log]_vars

\* an accepted set to another state, whose exit and enter hooks both ran
C5_Witness ==
    /\ last.op = "set"
    /\ last.result = "ok"
    /\ last.was # last.state
    /\ _states[last.user] = last.state
    /\ Len(trace) >= 2
    /\ trace[1].hook = "on_exit"
    /\ trace[1].seen = last.was
    /\ trace[2].hook = "on_enter"

\* a rule covers the pair (from, to): sources and targets equal or wildcard
RuleCovers(rule, from_state, to_state) ==
    /\ rule.from_state \in {from_state, Wildcard}
    /\ rule.to_state \in {to_state, Wildcard}

NoRuleCovers(from_state, to_state) ==
    \A i \in 1 .. Len(transitions) : ~RuleCovers(transitions[i], from_state, to_state)

\* C6: on a closed FSM (a transition is declared) where no rule covers s -> s,
\* can_transition(s, s) is false for every declared s, and a set(s) by a user
\* whose stored state is s raises ValueError and leaves the stored state s.
C6_SelfTransitionRejected ==
    [][/\ \A s \in DOMAIN states, u \in Users :
            (transitions # << >> /\ NoRuleCovers(s, s)) => ~can_transition(s, s, u)
       /\ (/\ last'.op = "set"
           /\ _states[last'.user] = last'.state
           /\ last'.state \in DOMAIN states
           /\ transitions # << >>
           /\ NoRuleCovers(last'.state, last'.state))
          => (last'.result = "ValueError" /\ _states'[last'.user] = last'.state)]_vars

\* a rejected set(s) by a user in the declared state s of a closed FSM
C6_Witness ==
    /\ last.op = "set"
    /\ last.was = last.state
    /\ last.state \in DOMAIN states
    /\ transitions # << >>
    /\ NoRuleCovers(last.state, last.state)
    /\ last.result = "ValueError"
    /\ _states[last.user] = last.state

-----------------------------------------------------------------------------
(* Stored data *)

\* C7: update_data merges (the keys given are overwritten, the others kept)
\* and set_data replaces: afterwards get_data is exactly the dictionary given.
C7_UpdateMergesSetReplaces ==
    [][/\ last'.op = "update_data" =>
            /\ DOMAIN DataAfter(last'.user) = (DOMAIN Data(last'.user)) \cup (DOMAIN last'.kw)
            /\ \A k \in DOMAIN last'.kw : DataAfter(last'.user)[k] = last'.kw[k]
            /\ \A k \in (DOMAIN Data(last'.user)) \ (DOMAIN last'.kw) :
                    DataAfter(last'.user)[k] = Data(last'.user)[k]
       /\ last'.op = "set_data" => DataAfter(last'.user) = heap[held.ref]]_vars

\* update_data(u, {a: 1}) then update_data(u, {b: 2}) gave {a: 1, b: 2}
C7_Witness ==
    /\ last.op = "update_data"
    /\ last.kw = ("b" :> 2)
    /\ Data(last.user) = ("a" :> 1) @@ ("b" :> 2)

\* a set_data that replaced a larger dictionary
C7_WitnessReplace ==
    /\ last.op = "set_data"
    /\ last.kw = ("a" :> 1) @@ ("b" :> 2)
    /\ Data(last.user) = ("a" :> 2)

\* C8 as stated: mutating a dictionary that get_data returned never changes
\* what a later get_data returns.
C8_MutatingReturnedMapNeverShows ==
    [][(last'.op = "mutate_held" /\ held.origin = "get_data")
        => \A u \in UserIds : DataAfter(u) = Data(u)]_vars

\* C8, amended: get_data returns a new dictionary with the stored items, not
\* the stored object; mutating it does not change what a later get_data
\* returns as long as that dictionary has not been handed to set_data.
C8_GetDataReturnsCopy ==
    [][/\ last'.op = "get_data" =>
            /\ held'.ref \notin {_data'[u] : u \in UserIds}
            /\ heap'[held'.ref] = Data(last'.user)
            /\ \A u \in UserIds : DataAfter(u) = Data(u)
       /\ (last'.op = "mutate_held" /\ held.origin = "get_data" /\ ~held.stored)
            => \A u \in UserIds : DataAfter(u) = Data(u)]_vars

\* a dictionary returned by get_data for a user with data was mutated and
\* now differs from what is stored
C8_Witness ==
    /\ last.op = "mutate_held"
    /\ held.origin = "get_data"
    /\ ~held.stored
    /\ \E u \in Users : Data(u) # EmptyDict /\ heap[held.ref] # Data(u)

\* C9: delete(u), reached through StateManager.reset, VKBot.reset_state and
\* StateContext.finish, leaves u without state and with empty data, and the
\* state and data of every other user as they were.
C9_DeleteClearsBothFields ==
    [][last'.op \in {"reset", "finish"} =>
            /\ _states'[last'.user] = None
            /\ DataAfter(last'.user) = EmptyDict
            /\ \A v \in UserIds \ {last'.user} :
                    _states'[v] = _states[v] /\ DataAfter(v) = Data(v)]_vars

\* a delete for a user who had a state, while another user keeps state and data
C9_Witness ==
    /\ last.op \in {"reset", "finish"}
    /\ last.was # None
    /\ _states[last.user] = None
    /\ \E v \in Users \ {last.user} : _states[v] # None /\ Data(v) # EmptyDict

-----------------------------------------------------------------------------
(* types: Update, Message, CallbackQuery.  Text is a sequence of characters. *)

GroupThreshold == 2000000000

\* a Chat whose type is always the dataclass default
ChatType_private(peer_id) == "private"

\* Chat.from_peer_id(peer_id).type
ChatType(peer_id) == IF peer_id > GroupThreshold THEN "group" ELSE "private"

\* Message.content_type ("" is no action)
content_type(E) ==
    IF E.text # << >> THEN "text"
    ELSE IF E.attachments # << >> THEN E.attachments[1]
    ELSE IF E.action # "" THEN "action"
    ELSE "unknown"

\* str.lower() on the characters the model uses
LowerChar(c) == IF c = "G" THEN "g" ELSE IF c = "O" THEN "o" ELSE c
Lower(text) == [i \in 1 .. Len(text) |-> LowerChar(text[i])]

\* util.extract_command without .lower()
extract_command_no_fold(text) ==
    IF text = << >> \/ text[1] # "/"
    THEN [found |-> FALSE, command |-> << >>, has_args |-> FALSE, args |-> << >>]
    ELSE LET rest == Tail(text)
             spaces == {i \in 1 .. Len(rest) : rest[i] = " "}
             cut == IF spaces = {} THEN Len(rest) + 1
                    ELSE CHOOSE i \in spaces : \A j \in spaces : i <= j
         IN  [found |-> TRUE,
              command |-> SubSeq(rest, 1, cut - 1),
              has_args |-> spaces # {},
              args |-> SubSeq(rest, cut + 1, Len(rest))]

\* util.extract_command: found is false for (None, None); has_args is false
\* when the arguments are None
extract_command(text) ==
    IF text = << >> \/ text[1] # "/"
    THEN [found |-> FALSE, command |-> << >>, has_args |-> FALSE, args |-> << >>]
    ELSE LET rest == Tail(text)
             spaces == {i \in 1 .. Len(rest) : rest[i] = " "}
             cut == IF spaces = {} THEN Len(rest) + 1
                    ELSE CHOOSE i \in spaces : \A j \in spaces : i <= j
         IN  [found |-> TRUE,
              command |-> Lower(SubSeq(rest, 1, cut - 1)),
              has_args |-> spaces # {},
              args |-> SubSeq(rest, cut + 1, Len(rest))]

\* re.search for a pattern that is a literal, anchored at the start or not
Search(pattern, text) ==
    \E i \in 0 .. (IF pattern.anchored THEN 0 ELSE Len(text) - Len(pattern.literal)) :
        /\ i + Len(pattern.literal) <= Len(text)
        /\ SubSeq(text, i + 1, i + Len(pattern.literal)) = pattern.literal

-----------------------------------------------------------------------------
(* handlers.  An absent filter is the empty set; a state filter is absent  *)
(* when declared is false.                                                 *)

\* the callbacks an application registers, by what they do
\*   reply    (message)        bot.send_message(...), which raises VKAPIError
\*                             when the API answers with an error
\*   enter_s1 (message)        bot.set_state(message.from_id, "s1")
\*   done     (message, state) state.finish()
\*   fail     (message)        raises
\*   remember (message, state) state.update(a=1)
\*   advance  (message, state) state.set("s2")
Arity_one(callback) == 1
Arity(callback) == IF callback \in {"done", "remember", "advance"} THEN 2 ELSE 1

\* the custom predicates (func) an application gives
FuncHolds(f, E) ==
    IF f = "text_is_hi" THEN E.text = <<"h", "i">>
    ELSE IF f = "has_text" THEN E.text # << >>
    ELSE IF f = "from_user_1" THEN E.from_id = 1
    ELSE FALSE

\* the state argument of a handler: None, a list of names, one name, or a
\* collection that is not a list (a tuple, a set)
NoStateFilter == [declared |-> FALSE, kind |-> "none", names |-> {}]
StateFilter(names) == [declared |-> TRUE, kind |-> "list", names |-> names]
StateName(name) == [declared |-> TRUE, kind |-> "str", names |-> {name}]
StateTuple(names) == [declared |-> TRUE, kind |-> "tuple", names |-> names]

\* MessageHandler.__init__ without "or ['text']"
MessageHandler_no_default(callback, commands, regexp, func, content_types, chat_types, state) ==
    [callback |-> callback,
     accepts_state |-> Arity(callback) >= 2,
     commands |-> {Lower(c) : c \in commands},
     regexp |-> regexp,
     func |-> func,
     content_types |-> content_types,
     chat_types |-> chat_types,
     state |-> state]

\* Handler.__init__ and MessageHandler.__init__
MessageHandler(callback, commands, regexp, func, content_types, chat_types, state) ==
    [callback |-> callback,
     accepts_state |-> Arity(callback) >= 2,
     commands |-> {Lower(c) : c \in commands},
     regexp |-> regexp,
     func |-> func,
     content_types |-> IF content_types = {} THEN {"text"} ELSE content_types,
     chat_types |-> chat_types,
     state |-> state]

\* the state filter shared by MessageHandler.check and CallbackQueryHandler.check
\* "if isinstance(self.state, list): current_state not in self.state",
\* "elif self.state != current_state": a tuple or a set equals no state
StateFilterPasses_none_passes(h, current) ==
    h.state.declared => current = None \/ current \in h.state.names
StateFilterPasses(h, current) ==
    h.state.declared =>
        IF h.state.kind = "list" THEN current \in h.state.names
        ELSE IF h.state.kind = "str" THEN h.state.names = {current}
        ELSE FALSE

\* the order in which MessageHandler.check tests its filters
FilterOrder_func_first ==
    <<"func", "state", "chat_types", "content_types", "commands", "regexp">>
FilterOrder ==
    <<"state", "chat_types", "content_types", "func", "commands", "regexp">>

\* the order in which CallbackQueryHandler.check tests its filters
CallbackFilterOrder_no_data == <<"state", "func">>
CallbackFilterOrder == <<"state", "func", "data">>

\* the guard in front of a filter's test: "if self.state is not None",
\* "if self.chat_types and", "if self.func and", "if self.commands:",
\* "if self.regexp:", "if self.data:"; content_types has no guard
Declared(h, f) ==
    CASE f = "state" -> h.state.declared
      [] f = "chat_types" -> h.chat_types # {}
      [] f = "content_types" -> TRUE
      [] f = "func" -> h.func # {}
      [] f = "commands" -> h.commands # {}
      [] f = "regexp" -> h.regexp # {}
      [] f = "data" -> h.data # {}

\* message.chat raises TypeError when peer_id is None (None > 2000000000)
FilterRaises(h, f, E) == f = "chat_types" /\ E.peer_id = NoneId

\* the test of one filter; E.data is the set holding CallbackQuery.data,
\* empty when it is None
FilterPasses(h, f, E, current) ==
    CASE f = "state" -> StateFilterPasses(h, current)
      [] f = "chat_types" -> ChatType(E.peer_id) \in h.chat_types
      [] f = "content_types" -> content_type(E) \in h.content_types
      [] f = "func" -> \A g \in h.func : FuncHolds(g, E)
      [] f = "commands" ->
            /\ E.text # << >>
            /\ extract_command(E.text).command # << >>
            /\ extract_command(E.text).command \in h.commands
      [] f = "regexp" ->
            /\ E.text # << >>
            /\ \A p \in h.regexp : Search(p, E.text)
      [] f = "data" ->
            /\ E.data # {}
            /\ \A d \in E.data : d # << >> /\ \A p \in h.data : Search(p, d)

\* the body of check(): the filters one after the other, each "return False"
\* ending it; evaluated lists the filters whose test ran
RECURSIVE EvalFilters(_, _, _, _, _, _)
EvalFilters(order, h, E, current, i, evaluated) ==
    IF i > Len(order) THEN [result |-> "True", evaluated |-> evaluated]
    ELSE IF ~Declared(h, order[i])
    THEN EvalFilters(order, h, E, current, i + 1, evaluated)
    ELSE IF FilterRaises(h, order[i], E)
    THEN [result |-> "TypeError", evaluated |-> Append(evaluated, order[i])]
    ELSE IF FilterPasses(h, order[i], E, current)
    THEN EvalFilters(order, h, E, current, i + 1, Append(evaluated, order[i]))
    ELSE [result |-> "False", evaluated |-> Append(evaluated, order[i])]

\* MessageHandler.check(update, current_state), with the filters it evaluated
MessageHandler_eval(h, E, current) ==
    IF E.type # "message_new" THEN [result |-> "False", evaluated |-> << >>]
    ELSE EvalFilters(FilterOrder, h, E, current, 1, << >>)

MessageHandler_check(h, E, current) == MessageHandler_eval(h, E, current).result = "True"

\* check() raises instead of returning
MessageHandler_check_raises(h, E, current) ==
    MessageHandler_eval(h, E, current).result = "TypeError"

\* Handler.__init__ and CallbackQueryHandler.__init__
CallbackQueryHandler(callback, func, data, state) ==
    [callback |-> callback,
     accepts_state |-> Arity(callback) >= 2,
     func |-> func,
     data |-> data,
     state |-> state]

\* CallbackQueryHandler.check(update, current_state), with the filters it
\* evaluated
CallbackQueryHandler_eval(h, E, current) ==
    IF E.type # "message_event" THEN [result |-> "False", evaluated |-> << >>]
    ELSE EvalFilters(CallbackFilterOrder, h, E, current, 1, << >>)

CallbackQueryHandler_check(h, E, current) ==
    CallbackQueryHandler_eval(h, E, current).result = "True"

\* MiddlewareHandler.__init__
MiddlewareHandler(callback, update_types) ==
    [callback |-> callback, update_types |-> update_types]

MiddlewareHandler_check(mw, E) ==
    ~(mw.update_types # {} /\ E.type \notin mw.update_types)

\* the middleware callbacks an application registers, by what they return
\*   block_commands  False for a message whose text starts with "/", else True
\*   veto            False
\*   probe           a false-y value that is not False: None for a text
\*                   message, 0 for a message without text, "" otherwise
\*   enter_s1        sets the sender's state to "s1" and returns True
\*   raise           raises RuntimeError and returns nothing
MiddlewareReturn(callback, E) ==
    IF callback = "block_commands"
    THEN (IF E.type = "message_new" /\ E.text # << >> /\ E.text[1] = "/"
          THEN "False" ELSE "True")
    ELSE IF callback = "veto" THEN "False"
    ELSE IF callback = "raise" THEN "raised"
    ELSE IF callback = "probe"
    THEN (IF E.type = "message_new" /\ E.text # << >> THEN "None"
          ELSE IF E.type = "message_new" THEN "0"
          ELSE "''")
    ELSE "True"

Falsy == {"False", "None", "0", "''"}

\* MiddlewareHandler.process: self.callback(bot, update)
process(M, mw, E, i) ==
    LET M1 == IF mw.callback = "enter_s1" THEN set_state(M, E.from_id, "s1")
              ELSE IF mw.callback = "raise" THEN [M EXCEPT !.exc = "RuntimeError"]
              ELSE M
        result == MiddlewareReturn(mw.callback, E)
    IN  [m |-> [M1 EXCEPT !.log = Append(@, [kind |-> "middleware", index |-> i,
                                             result |-> result])],
         result |-> result]

-----------------------------------------------------------------------------
(* VKBot._process_update *)

\* "if result is False"
IsVeto_never(result) == FALSE
IsVeto_falsy(result) == result \in Falsy
IsVeto(result) == result = "False"

\* the middleware loop; returned is true when _process_update returns from it
RECURSIVE RunMiddlewares(_, _, _, _)
RunMiddlewares(M, mws, E, i) ==
    IF i > Len(mws) THEN [m |-> M, returned |-> FALSE]
    ELSE IF ~MiddlewareHandler_check(mws[i], E) THEN RunMiddlewares(M, mws, E, i + 1)
    ELSE LET r == process(M, mws[i], E, i)
         IN  IF r.m.exc # NoExc THEN [m |-> r.m, returned |-> TRUE]
             ELSE IF IsVeto(r.result) THEN [m |-> r.m, returned |-> TRUE]
             ELSE RunMiddlewares(r.m, mws, E, i + 1)

\* handler.check(update, current_state) of either list
HandlerEval(list, h, E, current) ==
    IF list = "message" THEN MessageHandler_eval(h, E, current)
    ELSE CallbackQueryHandler_eval(h, E, current)

HandlerCheck(list, h, E, current) ==
    IF list = "message" THEN MessageHandler_check(h, E, current)
    ELSE CallbackQueryHandler_check(h, E, current)

HandlerCheckRaises(list, h, E, current) ==
    list = "message" /\ MessageHandler_check_raises(h, E, current)

\* the call of handler i's check, as the trace keeps it
Checked(M, list, h, E, current, i) ==
    LET r == HandlerEval(list, h, E, current)
    IN  [M EXCEPT !.log = Append(@, [kind |-> "check", list |-> list, index |-> i,
                                     evaluated |-> r.evaluated,
                                     result |-> r.result])]

\* handler.callback(message, state_context) or handler.callback(message)
Invoke(M, list, h, E, i) ==
    LET u == E.from_id
        M1 == [M EXCEPT !.log = Append(@, [kind |-> "handler", list |-> list,
                                           index |-> i,
                                           with_context |-> h.accepts_state])]
    IN  IF h.callback = "enter_s1" THEN set_state(M1, u, "s1")
        ELSE IF h.callback = "done" THEN finish(M1, u)
        ELSE IF h.callback = "remember" THEN update(M1, u, ("a" :> 1))
        ELSE IF h.callback = "advance" THEN set(M1, u, "s2")
        ELSE IF h.callback = "fail" THEN [M1 EXCEPT !.exc = "RuntimeError"]
        ELSE IF M.api # "ok" THEN [M1 EXCEPT !.exc = M.api]
        ELSE M1

\* the handler loop without its break
RECURSIVE RunHandlers_no_break(_, _, _, _, _, _)
RunHandlers_no_break(M, list, hs, E, current, i) ==
    IF i > Len(hs) \/ M.exc # NoExc THEN M
    ELSE LET M1 == Checked(M, list, hs[i], E, current, i)
         IN  IF HandlerCheckRaises(list, hs[i], E, current)
             THEN [M1 EXCEPT !.exc = "TypeError"]
             ELSE IF HandlerCheck(list, hs[i], E, current)
             THEN RunHandlers_no_break(Invoke(M1, list, hs[i], E, i), list, hs, E,
                                       current, i + 1)
             ELSE RunHandlers_no_break(M1, list, hs, E, current, i + 1)

\* the handler loop: the first handler whose check passes is called, then break
RECURSIVE RunHandlers(_, _, _, _, _, _)
RunHandlers(M, list, hs, E, current, i) ==
    IF i > Len(hs) THEN M
    ELSE LET M1 == Checked(M, list, hs[i], E, current, i)
         IN  IF HandlerCheckRaises(list, hs[i], E, current)
             THEN [M1 EXCEPT !.exc = "TypeError"]
             ELSE IF HandlerCheck(list, hs[i], E, current)
             THEN Invoke(M1, list, hs[i], E, i)
             ELSE RunHandlers(M1, list, hs, E, current, i + 1)

\* a dispatch that resolved the sender's state before the middlewares ran
Dispatch_stale(M, list, hs, E) ==
    LET u == E.from_id
        current == _states[u]
        M1 == [M EXCEPT !.log = Append(@, [kind |-> "get_state", user |-> u,
                                           state |-> current])]
    IN  RunHandlers(StateContext(M1, u), list, hs, E, current, 1)

\* user_id, current_state = self.get_state(user_id),
\* state_context = self._get_state_context(user_id), then the handler loop
Dispatch(M, list, hs, E) ==
    LET u == E.from_id
        current == get_state(M, u)
        M1 == [M EXCEPT !.log = Append(@, [kind |-> "get_state", user |-> u,
                                           state |-> current])]
    IN  RunHandlers(StateContext(M1, u), list, hs, E, current, 1)

\* a _process_update that takes every event that is not a callback for a
\* message
_process_update_untyped(M, E) ==
    LET mw == RunMiddlewares(M, middleware_handlers, E, 1)
    IN  IF mw.returned THEN mw.m
        ELSE IF E.type = "message_event"
        THEN Dispatch(mw.m, "callback", callback_query_handlers, E)
        ELSE Dispatch(mw.m, "message", message_handlers, E)

_process_update(M, E) ==
    LET mw == RunMiddlewares(M, middleware_handlers, E, 1)
    IN  IF mw.returned THEN mw.m
        ELSE IF E.type = "message_new"
        THEN Dispatch(mw.m, "message", message_handlers, E)
        ELSE IF E.type = "message_event"
        THEN Dispatch(mw.m, "callback", callback_query_handlers, E)
        ELSE mw.m

-----------------------------------------------------------------------------
(* Registration and dispatch as steps *)

\* a bound of the model: the number of handlers and middlewares registered
MaxRegistered == 3

Registered ==
    Len(message_handlers) + Len(callback_query_handlers) + Len(middleware_handlers)

Hi == <<"h", "i">>
GoHi == <<"/", "G", "O", " ", "h", "i">>
Ok == <<"o", "k">>

Event(type, from_id, peer_id, text, attachments, data) ==
    [type |-> type, from_id |-> from_id, peer_id |-> peer_id, text |-> text,
     attachments |-> attachments, action |-> "", data |-> data]

\* apihelper._make_request returns, or raises VKAPIError on an error answer
ApiAnswers == {"ok", "VKAPIError"}

Events ==
    {Event("message_new", 1, 1, Hi, << >>, {}),
     Event("message_new", 1, 1, GoHi, << >>, {}),
     Event("message_new", 1, GroupThreshold + 1, << >>, <<"photo">>, {}),
     Event("message_event", 1, 1, << >>, << >>, {Ok}),
     Event("message_event", 1, 1, << >>, << >>, {}),
     Event("message_new", NoneId, NoneId, << >>, << >>, {}),
     Event("user_online", NoneId, NoneId, << >>, << >>, {})}

MessageHandlerChoices ==
    {MessageHandler("reply", {<<"G", "o">>}, {}, {}, {}, {}, NoStateFilter),
     MessageHandler("enter_s1", {}, {[literal |-> <<"h">>, anchored |-> TRUE]},
                    {"text_is_hi"}, {}, {"private"}, NoStateFilter),
     MessageHandler("done", {}, {}, {}, {}, {}, StateFilter({"s1"})),
     MessageHandler("fail", {}, {}, {}, {"photo"}, {"group"}, NoStateFilter)}

CallbackQueryHandlerChoices ==
    {CallbackQueryHandler("reply", {}, {[literal |-> <<"k">>, anchored |-> FALSE]},
                          NoStateFilter),
     CallbackQueryHandler("done", {}, {}, NoStateFilter)}

MiddlewareHandlerChoices ==
    {MiddlewareHandler("block_commands", {}),
     MiddlewareHandler("veto", {"message_event"}),
     MiddlewareHandler("probe", {})}

\* @bot.message_handler(...)
message_handler(h) ==
    /\ Registered < MaxRegistered
    /\ message_handlers' = Append(message_handlers, h)
    /\ last' = [NoOp EXCEPT !.op = "message_handler"]
    /\ UNCHANGED <<storeVars, fsmConfigVars, current_state, contexts,
                   callback_query_handlers, middleware_handlers, pollVars, writers,
                   trace>>

\* @bot.callback_query_handler(...)
callback_query_handler(h) ==
    /\ Registered < MaxRegistered
    /\ callback_query_handlers' = Append(callback_query_handlers, h)
    /\ last' = [NoOp EXCEPT !.op = "callback_query_handler"]
    /\ UNCHANGED <<storeVars, fsmConfigVars, current_state, contexts,
                   message_handlers, middleware_handlers, pollVars, writers, trace>>

\* @bot.middleware_handler(...)
middleware_handler(mw) ==
    /\ Registered < MaxRegistered
    /\ middleware_handlers' = Append(middleware_handlers, mw)
    /\ last' = [NoOp EXCEPT !.op = "middleware_handler"]
    /\ UNCHANGED <<storeVars, fsmConfigVars, current_state, contexts,
                   message_handlers, callback_query_handlers, pollVars, writers,
                   trace>>

\* VKBot._process_update(update), called directly as the tests do
ProcessUpdate(E) ==
    /\ \E api \in ApiAnswers :
       \E M \in {_process_update([World EXCEPT !.api = api], E)} :
          /\ Commit(M)
          /\ last' = [op |-> "_process_update", user |-> E.from_id, state |-> None,
                      kw |-> EmptyDict, was |-> _states[E.from_id],
                      result |-> Outcome(M), event |-> E]
    /\ UNCHANGED <<fsmConfigVars, contexts, registryVars, pollVars, writers>>

NextDispatch ==
    \/ \E h \in MessageHandlerChoices : message_handler(h)
    \/ \E h \in CallbackQueryHandlerChoices : callback_query_handler(h)
    \/ \E mw \in MiddlewareHandlerChoices : middleware_handler(mw)
    \/ \E E \in Events : ProcessUpdate(E)

SpecDispatch == Init /\ [][NextDispatch]_vars

-----------------------------------------------------------------------------
(* What one _process_update did, read from its trace *)

Processed == last.op = "_process_update"

HandlerCalls == {k \in DOMAIN trace : trace[k].kind = "handler"}
MiddlewareCalls == {k \in DOMAIN trace : trace[k].kind = "middleware"}
StateReads == {k \in DOMAIN trace : trace[k].kind = "get_state"}

\* the middlewares that ran, by their position in the registry
MiddlewaresRun == {trace[k].index : k \in MiddlewareCalls}

\* nothing of the event's processing follows trace entry k
NothingRunsAfter(k) ==
    \A j \in DOMAIN trace : j > k => trace[j].kind \notin {"middleware", "handler"}

Category(E) ==
    IF E.type = "message_new" THEN "message"
    ELSE IF E.type = "message_event" THEN "callback"
    ELSE "none"

HandlersOf(list) ==
    IF list = "message" THEN message_handlers
    ELSE IF list = "callback" THEN callback_query_handlers
    ELSE << >>

\* the state the user was in when the handlers were tried
StateAtDispatch ==
    IF StateReads = {} THEN last.was
    ELSE trace[CHOOSE k \in StateReads : TRUE].state

\* the handlers of the event's category whose check() is true
Matching ==
    {i \in DOMAIN HandlersOf(Category(last.event)) :
        HandlerCheck(Category(last.event), HandlersOf(Category(last.event))[i],
                     last.event, StateAtDispatch)}

\* the middlewares whose scope includes the event's type
InScope ==
    {i \in DOMAIN middleware_handlers :
        MiddlewareHandler_check(middleware_handlers[i], last.event)}

Returns(i) == MiddlewareReturn(middleware_handlers[i].callback, last.event)

Stopped == \E k \in MiddlewareCalls : trace[k].result = "False"

NormalDispatch == (HandlerCalls # {}) <=> (Matching # {})

\* C1: one _process_update invokes at most one handler; the handler invoked
\* is of the event's category, its check() is true for the event and the
\* user's current state, and no earlier-registered handler of that category
\* passes; when no handler matches none is invoked, and when one matches and
\* no middleware stopped the event and no check() raised, one is invoked.
C1_AtMostOneHandlerEarliestMatch ==
    Processed =>
        /\ Cardinality(HandlerCalls) <= 1
        /\ \A k \in HandlerCalls :
              /\ trace[k].list = Category(last.event)
              /\ trace[k].index \in Matching
              /\ \A j \in Matching : trace[k].index <= j
        /\ (Matching = {} => HandlerCalls = {})
        /\ (Matching # {} /\ ~Stopped /\ last.result # "TypeError" => HandlerCalls # {})

\* two registered handlers match, the first registered one does not, and the
\* earlier of the two was invoked
C1_Witness ==
    /\ Processed
    /\ Cardinality(Matching) >= 2
    /\ 1 \notin Matching
    /\ \E k \in HandlerCalls : trace[k].index = 2

\* C2: when an in-scope middleware returns False, no handler is invoked and
\* the middlewares that ran are exactly the in-scope ones up to the first
\* that returned False; when every in-scope middleware returns True, all of
\* them ran and the event is dispatched normally.
C2_FalseStopsTrueDispatches ==
    Processed =>
        LET vetoes == {i \in InScope : Returns(i) = "False"}
        IN  /\ vetoes # {} =>
                  /\ HandlerCalls = {}
                  /\ StateReads = {}
                  /\ \E f \in vetoes :
                        /\ \A g \in vetoes : f <= g
                        /\ MiddlewaresRun = {i \in InScope : i <= f}
            /\ (\A i \in InScope : Returns(i) = "True") =>
                  /\ MiddlewaresRun = InScope
                  /\ NormalDispatch

\* the first middleware returned False although a later middleware was in
\* scope and a handler matched the event
C2_Witness ==
    /\ Processed
    /\ \E k \in MiddlewareCalls : trace[k].index = 1 /\ trace[k].result = "False"
    /\ 2 \in InScope
    /\ Matching # {}
    /\ HandlerCalls = {}

\* a middleware returned True and the matching handler was then invoked
C2_WitnessTrue ==
    /\ Processed
    /\ InScope # {}
    /\ \A i \in InScope : Returns(i) = "True"
    /\ HandlerCalls # {}

\* C3 as stated: after a middleware returns any false-y result (False, None,
\* 0, an empty value) no later middleware and no handler runs.
C3_AnyFalsyResultAborts ==
    Processed =>
        \A k \in MiddlewareCalls : trace[k].result \in Falsy => NothingRunsAfter(k)

\* C3: only the result False aborts.  After False no later middleware and no
\* handler runs; after a false-y result other than False (None, 0, an empty
\* value) processing goes on: the next in-scope middleware runs, and after
\* the last one the event is dispatched normally.
C3_OnlyFalseAborts ==
    Processed =>
        \A k \in MiddlewareCalls :
            /\ trace[k].result = "False" => NothingRunsAfter(k)
            /\ trace[k].result \in Falsy \ {"False"} =>
                  LET later == {i \in InScope : i > trace[k].index}
                  IN  IF later # {}
                      THEN \E i \in later : /\ \A j \in later : i <= j
                                            /\ i \in MiddlewaresRun
                      ELSE NormalDispatch

\* a middleware returned None or 0 and a handler was invoked all the same
C3_Witness ==
    /\ Processed
    /\ \E k \in MiddlewareCalls : trace[k].result \in {"None", "0", "''"}
    /\ HandlerCalls # {}

-----------------------------------------------------------------------------
(* apihelper: the Long Poll source.  A raw update is the list the server   *)
(* sends, a sequence of integers whose first element is the event type.    *)

\* a bound of the model: the cursors the server hands out are 0 .. MaxTs
MaxTs == 2

\* a bound of the model: the number of raw updates in one response
MaxBatch == 2

RawUpdates ==
    {<<4, 7, 0, 1, 0>>,     \* a new message, complete
     <<4>>,                 \* a new message cut short
     <<8, 1, 0>>,           \* a user came online
     <<61, 1>>}             \* an event type parse_update does not know

Batches == UNION {[1 .. n -> RawUpdates] : n \in 0 .. MaxBatch}

\* what the server may answer to a fetch made with cursor ts: a batch with
\* the same or the next cursor, or {"failed": 2} with neither
Responses(ts) ==
    {[has_ts |-> TRUE, ts |-> t, has_updates |-> TRUE, updates |-> b] :
        t \in {ts, ts + 1} \cap (0 .. MaxTs), b \in Batches}
    \cup {NoResponse}

\* apihelper.parse_update: kind is "dict" for a dictionary returned, "None"
\* for None, or the exception raised by an index past the end of the list
parse_update(upd) ==
    IF upd = << >> THEN [kind |-> "None", type |-> "", peer_id |-> NoneId]
    ELSE IF upd[1] = 4
    THEN (IF Len(upd) < 5
          THEN [kind |-> "IndexError", type |-> "", peer_id |-> NoneId]
          ELSE [kind |-> "dict", type |-> "message_new", peer_id |-> upd[4]])
    ELSE IF upd[1] = 8
    THEN (IF Len(upd) < 3
          THEN [kind |-> "IndexError", type |-> "", peer_id |-> NoneId]
          ELSE [kind |-> "dict", type |-> "user_online", peer_id |-> NoneId])
    ELSE [kind |-> "None", type |-> "", peer_id |-> NoneId]

\* process_updates putting each parsed update in front of the earlier ones
RECURSIVE ParseAll_reversed(_, _, _)
ParseAll_reversed(updates, i, parsed) ==
    IF i > Len(updates) THEN [parsed |-> parsed, exc |-> NoExc]
    ELSE LET p == parse_update(updates[i])
         IN  IF p.kind = "dict" THEN ParseAll_reversed(updates, i + 1, <<p>> \o parsed)
             ELSE IF p.kind = "None" THEN ParseAll_reversed(updates, i + 1, parsed)
             ELSE [parsed |-> parsed, exc |-> p.kind]

\* apihelper.process_updates: the parsed updates in order, None dropped
RECURSIVE ParseAll(_, _, _)
ParseAll(updates, i, parsed) ==
    IF i > Len(updates) THEN [parsed |-> parsed, exc |-> NoExc]
    ELSE LET p == parse_update(updates[i])
         IN  IF p.kind = "dict" THEN ParseAll(updates, i + 1, Append(parsed, p))
             ELSE IF p.kind = "None" THEN ParseAll(updates, i + 1, parsed)
             ELSE [parsed |-> parsed, exc |-> p.kind]

process_updates(raw) ==
    IF raw.has_updates THEN ParseAll(raw.updates, 1, << >>)
    ELSE [parsed |-> << >>, exc |-> NoExc]

\* types.Update(update_id=0, type=..., object=...) as _process_update reads
\* it: Update.message is Message.from_dict(object.get("message", {})), and
\* the object parse_update builds has no "message" key, so every field of
\* the message is the default (from_id and peer_id None, text empty)
Update(upd) ==
    Event(upd.type, NoneId, NoneId, << >>, << >>, {})

-----------------------------------------------------------------------------
(* VKBot.polling, one step per statement that another thread can observe *)

AssignedServer == [server |-> "server", key |-> "key", ts |-> 0]

\* a step of polling() that is not a dispatch, and how it ended; once the
\* cursor is advanced nothing of an earlier failed iteration is left to record
PollResult(op, result) ==
    /\ last' = [NoOp EXCEPT !.op = op, !.result = result]
    /\ redelivery' = IF op = "advance" THEN NoRedelivery ELSE redelivery
    /\ UNCHANGED <<storeVars, fsmConfigVars, current_state, contexts,
                   registryVars, writers, trace>>

PollStep(op) == PollResult(op, "ok")

\* the except clauses: VKAPIError discards the session; then raise or sleep
Raise_keep_session(exc) ==
    /\ UNCHANGED lp_server
    /\ pc' = IF non_stop THEN "sleep" ELSE "raised"

Raise_propagate(exc) ==
    /\ lp_server' = IF exc = "VKAPIError" THEN NoServer ELSE lp_server
    /\ pc' = "raised"

\* an except clause that takes the cursor of the response before it sleeps
Raise_skip(exc) ==
    /\ lp_server' = IF exc = "VKAPIError" THEN NoServer
                    ELSE IF raw_updates.has_ts
                    THEN [lp_server EXCEPT !.ts = raw_updates.ts]
                    ELSE lp_server
    /\ pc' = IF non_stop THEN "sleep" ELSE "raised"

Raise(exc) ==
    /\ lp_server' = IF exc = "VKAPIError" THEN NoServer ELSE lp_server
    /\ pc' = IF non_stop THEN "sleep" ELSE "raised"

\* the application assigns bot.lp_server before it starts polling
AssignLpServer ==
    /\ pc = "idle"
    /\ lp_server = NoServer
    /\ lp_server' = AssignedServer
    /\ PollStep("lp_server")
    /\ UNCHANGED <<_polling, non_stop, pc, raw_updates, parsed_updates, dispatched>>

\* polling(non_stop=ns): self._polling = True
Polling(ns) ==
    /\ pc = "idle"
    /\ _polling' = TRUE
    /\ non_stop' = ns
    /\ pc' = "while"
    /\ PollStep("polling")
    /\ UNCHANGED <<lp_server, raw_updates, parsed_updates, dispatched>>

\* the loop condition
KeepGoing_forever == TRUE
KeepGoing == _polling

\* while self._polling (the local variables of the iteration before are
\* dead: they are assigned again before they are read)
WhileTest ==
    /\ pc = "while"
    /\ pc' = IF KeepGoing THEN "try" ELSE "returned"
    /\ raw_updates' = NoResponse
    /\ parsed_updates' = << >>
    /\ dispatched' = << >>
    /\ PollStep("while")
    /\ UNCHANGED <<lp_server, _polling, non_stop>>

\* if not self.lp_server: self.lp_server = get_long_poll_server(token, group_id)
\* apihelper.get_long_poll_server takes the token alone, so the call with two
\* arguments raises TypeError (and with no group id given, the group_id
\* property raises AttributeError first: apihelper has no get_group_id);
\* either way the "except Exception" clause receives it
Acquire ==
    /\ pc = "try"
    /\ IF lp_server = NoServer
       THEN Raise("TypeError") /\ PollResult("acquire", "TypeError")
       ELSE pc' = "fetch" /\ UNCHANGED lp_server /\ PollStep("acquire")
    /\ UNCHANGED <<_polling, non_stop, raw_updates, parsed_updates, dispatched>>

\* raw_updates = apihelper.get_long_poll_updates(server, key, ts)
Fetch ==
    /\ pc = "fetch"
    /\ \/ \E r \in Responses(lp_server.ts) :
             /\ raw_updates' = r
             /\ UNCHANGED dispatched
             /\ pc' = "parse"
             /\ UNCHANGED lp_server
             /\ PollStep("fetch")
       \/ /\ Raise("ConnectionError")
          /\ PollResult("fetch", "ConnectionError")
          /\ UNCHANGED <<raw_updates, dispatched>>
    /\ UNCHANGED <<_polling, non_stop, parsed_updates>>

\* parsed_updates = apihelper.process_updates(raw_updates)
Parse ==
    /\ pc = "parse"
    /\ LET p == process_updates(raw_updates)
       IN  IF p.exc # NoExc
           THEN Raise(p.exc) /\ PollResult("parse", p.exc) /\ UNCHANGED parsed_updates
           ELSE /\ parsed_updates' = p.parsed
                /\ pc' = "for"
                /\ UNCHANGED lp_server
                /\ PollStep("parse")
    /\ UNCHANGED <<_polling, non_stop, raw_updates, dispatched>>

\* the for loop over parsed_updates is exhausted
BatchDone_always == TRUE
BatchDone == Len(dispatched) = Len(parsed_updates)

\* for update_data in parsed_updates: self._process_update(update_data)
DispatchOne ==
    /\ pc = "for"
    /\ Len(dispatched) < Len(parsed_updates)
    /\ LET upd == parsed_updates[Len(dispatched) + 1]
           E == Update(upd)
       IN  \E api \in ApiAnswers :
           \E M \in {_process_update([World EXCEPT !.api = api], E)} :
              /\ Commit(M)
              /\ last' = [op |-> "_process_update", user |-> E.from_id,
                          state |-> None, kw |-> EmptyDict,
                          was |-> _states[E.from_id], result |-> Outcome(M),
                          event |-> E]
              /\ dispatched' = Append(dispatched, [update |-> upd, event |-> E,
                                                  result |-> Outcome(M)])
              /\ IF M.exc # NoExc THEN Raise(M.exc)
                 ELSE UNCHANGED <<lp_server, pc>>
    /\ UNCHANGED <<fsmConfigVars, contexts, registryVars, _polling, non_stop,
                   raw_updates, parsed_updates, writers>>

DispatchNext == DispatchOne /\ UNCHANGED redelivery

\* the same step, keeping for a failed dispatch the cursor of the iteration
\* and the events it had handled before
DispatchNextRecorded ==
    /\ DispatchOne
    /\ redelivery' =
          IF last'.result # "ok"
          THEN [failed |-> TRUE, ts |-> lp_server.ts,
                handled |-> [i \in DOMAIN dispatched |-> dispatched[i].update]]
          ELSE redelivery

\* if "ts" in raw_updates: self.lp_server.ts = raw_updates["ts"]
Advance ==
    /\ pc = "for"
    /\ BatchDone
    /\ lp_server' = IF raw_updates.has_ts THEN [lp_server EXCEPT !.ts = raw_updates.ts]
                    ELSE lp_server
    /\ pc' = "while"
    /\ PollStep("advance")
    /\ UNCHANGED <<_polling, non_stop, raw_updates, parsed_updates, dispatched>>

\* time.sleep(interval), then the loop again
Sleep ==
    /\ pc = "sleep"
    /\ pc' = "while"
    /\ PollStep("sleep")
    /\ UNCHANGED <<lp_server, _polling, non_stop, raw_updates, parsed_updates,
                   dispatched>>

\* VKBot.stop_polling, from another thread
stop_polling ==
    /\ pc \notin {"idle", "returned", "raised"}
    /\ _polling
    /\ _polling' = FALSE
    /\ PollStep("stop_polling")
    /\ UNCHANGED <<lp_server, non_stop, pc, raw_updates, parsed_updates, dispatched>>

\* the handlers an application that polls registers before it starts: the
\* messages the source delivers have content type "unknown"
PollHandlerChoices ==
    {MessageHandler("reply", {}, {}, {}, {"unknown"}, {}, NoStateFilter),
     MessageHandler("fail", {}, {}, {}, {"unknown"}, {}, NoStateFilter)}

\* and a middleware of theirs that raises on the events it is scoped to
PollMiddlewareChoices == {MiddlewareHandler("raise", {"user_online"})}

\* a bound of the model: the number of handlers and middlewares registered
\* by an application that polls
MaxPollRegistered == 2

\* the application registers before it starts polling
Registering == pc = "idle" /\ Registered < MaxPollRegistered

NextPoll ==
    \/ \E h \in PollHandlerChoices : Registering /\ message_handler(h)
    \/ \E mw \in PollMiddlewareChoices : Registering /\ middleware_handler(mw)
    \/ AssignLpServer
    \/ \E ns \in BOOLEAN : Polling(ns)
    \/ WhileTest
    \/ Acquire
    \/ Fetch
    \/ Parse
    \/ DispatchNext
    \/ Advance
    \/ Sleep
    \/ stop_polling

SpecPoll == Init /\ [][NextPoll]_vars

\* the thread that runs polling() keeps running: a statement it has reached
\* is executed, a fetch answers or fails, a callback returns or raises
LoopStep == WhileTest \/ Acquire \/ Fetch \/ Parse \/ DispatchNext \/ Advance \/ Sleep

\* an application whose one handler answers every message
StopHandlerChoices ==
    {MessageHandler("reply", {}, {}, {}, {"unknown"}, {}, NoStateFilter)}

NextStop ==
    \/ \E h \in StopHandlerChoices : Registering /\ message_handler(h)
    \/ AssignLpServer
    \/ \E ns \in BOOLEAN : Polling(ns)
    \/ LoopStep
    \/ stop_polling

SpecStop == Init /\ [][NextStop]_vars /\ WF_vars(LoopStep)

-----------------------------------------------------------------------------
(* The poll loop's cursor *)

\* every event parsed from the fetched batch was given to _process_update,
\* in order, and each call returned without an exception
WholeBatchDispatched ==
    /\ Len(dispatched) = Len(parsed_updates)
    /\ \A i \in DOMAIN dispatched :
          /\ dispatched[i].event = Update(parsed_updates[i])
          /\ dispatched[i].result = "ok"

\* C10: while polling() runs, the cached cursor lp_server.ts gets a new value
\* only in the step after the for loop, when every event of the fetched
\* batch has been dispatched without an exception, and the new value is the
\* cursor of the fetch response; no step before or during the dispatch of a
\* batch changes it.  The only other change to the cached session is its
\* discard on VKAPIError.
C10_CursorAdvancesOnlyAfterWholeBatch ==
    [][(pc # "idle" /\ lp_server' # lp_server) =>
          \/ /\ lp_server' # NoServer
             /\ pc = "for" /\ pc' = "while"
             /\ WholeBatchDispatched
             /\ raw_updates.has_ts
             /\ lp_server' = [lp_server EXCEPT !.ts = raw_updates.ts]
          \/ /\ lp_server' = NoServer
             /\ pc = "for"
             /\ last'.result = "VKAPIError"]_vars

\* the cursor was advanced to the response's cursor after a batch of two
\* events went through the registered handlers
C10_Witness ==
    /\ last.op = "advance"
    /\ pc = "while"
    /\ Len(dispatched) = 2
    /\ WholeBatchDispatched
    /\ message_handlers # << >>
    /\ lp_server.ts = raw_updates.ts
    /\ lp_server.ts > 0

\* a handler raised on the first event of a batch whose response carried a
\* newer cursor, and the cached cursor stayed where it was
C10_WitnessException ==
    /\ pc = "sleep"
    /\ Len(dispatched) = 1
    /\ Len(parsed_updates) = 2
    /\ dispatched[1].result = "RuntimeError"
    /\ raw_updates.has_ts
    /\ lp_server.ts < raw_updates.ts

-----------------------------------------------------------------------------
(* The poll loop's batches and errors *)

Parseable(raw) == parse_update(raw).kind = "dict"

\* the events of the fetched batch, in the order the server sent them
ArrivalOrder ==
    LET kept == SelectSeq(raw_updates.updates, Parseable)
    IN  [i \in 1 .. Len(kept) |-> parse_update(kept[i])]

\* a step of polling() that ended in an exception
StepRaised ==
    /\ last'.op \in {"acquire", "fetch", "parse", "_process_update"}
    /\ last'.result # "ok"

\* C11: within one iteration the k-th call of _process_update receives the
\* k-th event of the fetched batch in arrival order, so no event is reordered
\* or dispatched twice; the calls are made one at a time, each one only after
\* every earlier call of the iteration has returned.
C11_BatchDispatchedInArrivalOrder ==
    [][/\ \A i \in DOMAIN dispatched' :
             /\ i <= Len(ArrivalOrder')
             /\ dispatched'[i].update = ArrivalOrder'[i]
       /\ (dispatched' # dispatched /\ dispatched' # << >>) =>
             /\ Len(dispatched') = Len(dispatched) + 1
             /\ SubSeq(dispatched', 1, Len(dispatched)) = dispatched
             /\ \A i \in DOMAIN dispatched : dispatched[i].result = "ok"]_vars

\* a batch of two different events went through a registered handler or
\* middleware, the first sent first
C11_Witness ==
    /\ Len(dispatched) = 2
    /\ Len(raw_updates.updates) = 2
    /\ dispatched[1].update.type = "user_online"
    /\ dispatched[2].update.type = "message_new"
    /\ message_handlers # << >>
    /\ trace # << >>

C12_WitnessKept ==
    /\ pc = "sleep"
    /\ last.result = "RuntimeError"
    /\ lp_server # NoServer

\* a middleware or a handler that raises was called in the step
RaisingCallbackRan ==
    \E k \in DOMAIN trace :
        \/ trace[k].kind = "middleware" /\ trace[k].result = "raised"
        \/ /\ trace[k].kind = "handler"
           /\ message_handlers[trace[k].index].callback = "fail"

\* C13: an exception of a middleware or a handler comes out of
\* _process_update; in non-stop mode every exception of the acquisition, the
\* fetch, the parsing or a dispatch sends the loop to its sleep and on to the
\* next test of the loop condition, and polling() never ends by an
\* exception; in stop-on-error mode the exception ends polling().
C13_ExceptionsAbsorbedOnlyInNonStopMode ==
    [][/\ (last'.op = "_process_update" /\ RaisingCallbackRan') =>
             last'.result = "RuntimeError"
       /\ StepRaised => pc' = (IF non_stop THEN "sleep" ELSE "raised")
       /\ pc' = "raised" => ~non_stop
       /\ (pc = "sleep" /\ pc' # pc) => pc' = "while"
       /\ (pc = "raised") => pc' = "raised"]_vars

\* in non-stop mode a middleware raised and the loop went to sleep
C13_Witness ==
    /\ non_stop
    /\ pc = "sleep"
    /\ last.op = "_process_update"
    /\ last.result = "RuntimeError"
    /\ \E k \in DOMAIN trace : trace[k].kind = "middleware"

\* in stop-on-error mode a handler raised and polling() ended
C13_WitnessStop ==
    /\ ~non_stop
    /\ pc = "raised"
    /\ last.op = "_process_update"
    /\ \E k \in DOMAIN trace : trace[k].kind = "handler"

-----------------------------------------------------------------------------
(* Cooperative shutdown *)

Running == pc \notin {"idle", "returned", "raised"}
StopRequested == Running /\ ~_polling

\* C14: once stop_polling() was called while polling() runs, polling() ends:
\* in non-stop mode it returns, in stop-on-error mode it returns or ends by
\* the exception of a step.  The flag is read only at the loop condition: an
\* iteration in progress is not left because of the flag, its remaining
\* events are dispatched and its cursor update is made, and from the loop
\* condition polling() returns without another fetch.
C14_StopEndsPollingAfterIteration ==
    /\ (StopRequested /\ non_stop) ~> (pc = "returned")
    /\ StopRequested ~> (pc \in {"returned", "raised"})
    /\ [][/\ (StopRequested /\ pc = "while" /\ pc' # pc) => pc' = "returned"
          /\ (StopRequested /\ pc # "while") => pc' # "returned"
          /\ (StopRequested /\ pc = "for" /\ ~BatchDone /\ pc' # pc) => StepRaised
          /\ (StopRequested /\ pc = "for" /\ pc' = "while") =>
                /\ WholeBatchDispatched
                /\ raw_updates.has_ts => lp_server'.ts = raw_updates.ts
          /\ pc = "returned" => pc' = "returned"]_vars

\* the flag went down during an iteration whose batch of two events was
\* then dispatched to the end and whose cursor update was made
C14_Witness ==
    /\ ~_polling
    /\ last.op = "advance"
    /\ Len(dispatched) = 2
    /\ WholeBatchDispatched
    /\ lp_server.ts = raw_updates.ts
    /\ lp_server.ts > 0

\* polling() returned
C14_WitnessReturned == pc = "returned" /\ ~_polling /\ lp_server.ts > 0

-----------------------------------------------------------------------------
(* Malformed raw events *)

\* a raw event parse_update has a type for and every field of that type
WellFormed(raw) ==
    /\ raw # << >>
    /\ \/ raw[1] = 4 /\ Len(raw) >= 5
       \/ raw[1] = 8 /\ Len(raw) >= 3

\* C15 as stated: parsing a fetched batch never raises; every raw event that
\* is not well formed is dropped, the well-formed ones are kept in their
\* order for the dispatch, and the iteration goes on to the dispatch and the
\* cursor update as for a batch without malformed events.
C15_MalformedEventsDroppedSilently ==
    [][(pc = "parse" /\ pc' # pc) =>
          /\ last'.result = "ok"
          /\ pc' = "for"
          /\ LET kept == SelectSeq(raw_updates.updates, WellFormed)
             IN  parsed_updates' = [i \in 1 .. Len(kept) |-> parse_update(kept[i])]]_vars

-----------------------------------------------------------------------------
(* Handlers and their filters: an application that registers handlers with *)
(* every kind of filter, and the events the filters tell apart             *)

\* a bound of the model: the number of handlers this application registers
MaxFilterRegistered == 2

SlashGo == <<"/", "g", "o">>
SlashHiGo == <<"/", "h", "i", " ", "g", "o">>
Go == <<"g", "o">>
Slash == <<"/">>

FilterHandlerChoices ==
    {MessageHandler("reply", {}, {}, {}, {}, {}, NoStateFilter),
     MessageHandler("reply", {}, {}, {}, {"photo"}, {}, NoStateFilter),
     MessageHandler("reply", {}, {}, {}, {}, {"private"}, NoStateFilter),
     MessageHandler("reply", {}, {}, {}, {}, {"group"}, NoStateFilter),
     MessageHandler("reply", {<<"G", "o">>}, {}, {}, {}, {}, NoStateFilter),
     MessageHandler("reply", {}, {}, {}, {}, {}, StateFilter({None, "s2"})),
     MessageHandler("reply", {<<"g", "o">>},
                    {[literal |-> Hi, anchored |-> FALSE]}, {"has_text"}, {},
                    {"private"}, StateName("s1")),
     MessageHandler("reply", {}, {}, {}, {}, {}, StateTuple({"s1", "s2"}))}

FilterCallbackChoices ==
    {CallbackQueryHandler("reply", {}, {}, StateFilter({"s1"}))}

FilterEvents ==
    {Event("message_new", 1, 1, Hi, << >>, {}),
     Event("message_new", 1, GroupThreshold + 1, GoHi, << >>, {}),
     Event("message_new", 1, GroupThreshold, Hi, << >>, {}),
     Event("message_new", 1, 1, GoHi, << >>, {}),
     Event("message_new", 1, 1, SlashGo, << >>, {}),
     Event("message_new", 1, 1, SlashHiGo, << >>, {}),
     Event("message_new", 1, 1, Go, << >>, {}),
     Event("message_new", 1, 1, Slash, << >>, {}),
     Event("message_new", 1, 1, << >>, <<"photo">>, {}),
     Event("message_new", 1, 1, << >>, << >>, {}),
     Event("message_new", NoneId, NoneId, << >>, << >>, {}),
     Event("message_event", 1, 1, << >>, << >>, {Ok})}

FilterRegistering ==
    Len(message_handlers) + Len(callback_query_handlers) < MaxFilterRegistered

NextFilters ==
    \/ \E h \in FilterHandlerChoices : FilterRegistering /\ message_handler(h)
    \/ \E h \in FilterCallbackChoices : FilterRegistering /\ callback_query_handler(h)
    \/ BotSetState(1, "s1")
    \/ \E E \in FilterEvents : ProcessUpdate(E)

SpecFilters == Init /\ [][NextFilters]_vars

-----------------------------------------------------------------------------
(* The order of a message handler's filters *)

\* the calls of MessageHandler.check the last _process_update made
MessageChecks ==
    {k \in DOMAIN trace : trace[k].kind = "check" /\ trace[k].list = "message"}

StatedOrder ==
    <<"state", "chat_types", "content_types", "func", "commands", "regexp">>

\* the filters handler h declares, in the stated order
DeclaredInOrder(h) == SelectSeq(StatedOrder, LAMBDA f : Declared(h, f))

IsPrefix(s, t) == Len(s) <= Len(t) /\ s = SubSeq(t, 1, Len(s))

\* filter f of handler h passes for the dispatched event
Passes(h, f) ==
    /\ ~FilterRaises(h, f, last.event)
    /\ FilterPasses(h, f, last.event, StateAtDispatch)

\* C16: each call of a message handler's check evaluates the declared
\* filters in the order state, chat type, content type, custom predicate,
\* command, pattern and stops at the first one that does not pass: what it
\* evaluated is a prefix of the declared filters in that order, every filter
\* before the last evaluated one passed, it stopped short only at a filter
\* that did not pass; the custom predicate is called only when the state,
\* chat-type and content-type filters passed; and check is true iff every
\* declared filter passes.
C16_FiltersInFixedOrderShortCircuit ==
    Processed =>
        \A k \in MessageChecks :
            LET h == message_handlers[trace[k].index]
                ev == trace[k].evaluated
                decl == DeclaredInOrder(h)
            IN  /\ ev # << >>
                /\ IsPrefix(ev, decl)
                /\ \A j \in 1 .. Len(ev) - 1 : Passes(h, ev[j])
                /\ Len(ev) < Len(decl) => ~Passes(h, ev[Len(ev)])
                /\ (\E j \in DOMAIN ev : ev[j] = "func") =>
                      \A f \in {"state", "chat_types", "content_types"} :
                          Declared(h, f) => Passes(h, f)
                /\ trace[k].result = "True" <=>
                      \A j \in DOMAIN decl : Passes(h, decl[j])

\* a handler with a custom predicate was checked for an event in the
\* handler's state that fails its chat-type filter: the check stopped there
C16_Witness ==
    /\ Processed
    /\ \E k \in MessageChecks :
          /\ message_handlers[trace[k].index].func # {}
          /\ trace[k].evaluated = <<"state", "chat_types">>
          /\ trace[k].result = "False"

\* every declared filter of a handler with a custom predicate passed
C16_WitnessAllPass ==
    /\ Processed
    /\ \E k \in MessageChecks :
          /\ trace[k].evaluated = StatedOrder
          /\ trace[k].result = "True"

-----------------------------------------------------------------------------
(* The state filter *)

\* the handler a trace entry is about
HandlerAt(k) == HandlersOf(trace[k].list)[trace[k].index]

AllChecks == {k \in DOMAIN trace : trace[k].kind = "check"}

\* C17: the state handed to the handlers' checks is the sender's state in
\* the storage; a handler with a state filter (one name, a list, another
\* collection) is invoked only when that state is one of the declared
\* states, so a sender without state reaches it only if None is among them;
\* and the check of a handler without a state filter gives the same result
\* whatever the sender's state is.
C17_StateFilterAdmitsOnlyDeclaredStates ==
    Processed =>
        /\ \A k \in StateReads :
              trace[k].user = last.user /\ trace[k].state = last.was
        /\ \A k \in HandlerCalls :
              HandlerAt(k).state.declared =>
                  /\ StateAtDispatch \in HandlerAt(k).state.names
                  /\ StateAtDispatch = None => None \in HandlerAt(k).state.names
        /\ \A k \in AllChecks :
              ~HandlerAt(k).state.declared =>
                  \A s \in StateNames \cup {None} :
                      HandlerEval(trace[k].list, HandlerAt(k), last.event, s).result
                          = trace[k].result

\* a handler whose state filter names "s1" was invoked for a sender in "s1"
C17_Witness ==
    /\ Processed
    /\ last.was = "s1"
    /\ \E k \in HandlerCalls :
          HandlerAt(k).state.declared /\ "s1" \in HandlerAt(k).state.names

\* a sender without state was given to a handler whose list holds None, after
\* a handler naming only "s1" turned the event down
C17_WitnessNone ==
    /\ Processed
    /\ last.was = None
    /\ \E k \in HandlerCalls :
          HandlerAt(k).state.declared /\ None \in HandlerAt(k).state.names
    /\ \E k \in AllChecks :
          /\ HandlerAt(k).state.declared
          /\ trace[k].evaluated = <<"state">>
          /\ trace[k].result = "False"

\* a handler without a state filter was invoked for a sender in "s1"
C17_WitnessNoFilter ==
    /\ Processed
    /\ last.was = "s1"
    /\ \E k \in HandlerCalls : ~HandlerAt(k).state.declared

-----------------------------------------------------------------------------
(* Absent filters and the default content type *)

\* handler h was registered with no filter but, at most, content types
OnlyContentTypes(h) ==
    /\ h.commands = {}
    /\ h.regexp = {}
    /\ h.func = {}
    /\ h.chat_types = {}
    /\ ~h.state.declared

\* registered with no filter at all
NoFilters(h) == OnlyContentTypes(h) /\ h.content_types \subseteq {"text"}

\* registered with content_types=['photo'] and nothing else
PhotoOnly(h) == OnlyContentTypes(h) /\ h.content_types = {"photo"}

\* C18: a filter that was not given is not tested; the check of a message
\* handler registered without filters is true exactly for the messages whose
\* content type is text, and the check of a handler registered with
\* content_types=['photo'] is true exactly for the messages whose content
\* type is photo.
C18_AbsentFiltersPassContentDefaultsToText ==
    Processed =>
        \A k \in MessageChecks :
            /\ \A j \in DOMAIN trace[k].evaluated :
                  \/ trace[k].evaluated[j] = "content_types"
                  \/ Declared(HandlerAt(k), trace[k].evaluated[j])
            /\ NoFilters(HandlerAt(k)) =>
                  (trace[k].result = "True" <=> content_type(last.event) = "text")
            /\ PhotoOnly(HandlerAt(k)) =>
                  (trace[k].result = "True" <=> content_type(last.event) = "photo")

\* a photo message was turned down by a handler without filters and
\* accepted by a handler for photos
C18_Witness ==
    /\ Processed
    /\ content_type(last.event) = "photo"
    /\ \E k \in MessageChecks :
          NoFilters(HandlerAt(k)) /\ trace[k].result = "False"
    /\ \E k \in HandlerCalls : PhotoOnly(HandlerAt(k))

\* a text message was accepted by a handler without filters after a handler
\* for photos turned it down
C18_WitnessText ==
    /\ Processed
    /\ content_type(last.event) = "text"
    /\ \E k \in MessageChecks :
          PhotoOnly(HandlerAt(k)) /\ trace[k].result = "False"
    /\ \E k \in HandlerCalls : NoFilters(HandlerAt(k))

-----------------------------------------------------------------------------
(* The command filter *)

\* registered with commands and nothing else
CommandsOnly(h) ==
    /\ h.commands # {}
    /\ h.regexp = {}
    /\ h.func = {}
    /\ h.chat_types = {}
    /\ ~h.state.declared
    /\ h.content_types = {"text"}

HasPrefix(text) == text # << >> /\ text[1] = "/"

\* the position of the first space of text, or 0
RECURSIVE FirstSpace(_, _)
FirstSpace(text, i) ==
    IF i > Len(text) THEN 0
    ELSE IF text[i] = " " THEN i
    ELSE FirstSpace(text, i + 1)

\* what stands between the "/" and the first space, or the end of the text
Token(text) ==
    IF FirstSpace(text, 1) = 0 THEN SubSeq(text, 2, Len(text))
    ELSE SubSeq(text, 2, FirstSpace(text, 1) - 1)

\* what follows the first space
Arguments(text) == SubSeq(text, FirstSpace(text, 1) + 1, Len(text))

\* C19: the check of a handler registered with commands only is true iff the
\* message's text starts with "/" and the lower-cased token between the "/"
\* and the first space is one of the handler's commands; and for a text with
\* the prefix extract_command gives that lower-cased token and, when there
\* is a space, what follows it ("/hi go" gives ("hi", "go")).
C19_CommandFilterMatchesFoldedToken ==
    (Processed /\ last.event.type = "message_new") =>
        LET text == last.event.text
        IN  /\ \A k \in MessageChecks :
                  CommandsOnly(HandlerAt(k)) =>
                      (trace[k].result = "True" <=>
                          HasPrefix(text) /\ Lower(Token(text)) \in HandlerAt(k).commands)
            /\ HasPrefix(text) =>
                  /\ extract_command(text).found
                  /\ extract_command(text).command = Lower(Token(text))
                  /\ extract_command(text).has_args <=> FirstSpace(text, 1) # 0
                  /\ extract_command(text).has_args =>
                        extract_command(text).args = Arguments(text)
            /\ text = SlashHiGo =>
                  /\ extract_command(text).command = Hi
                  /\ extract_command(text).args = Go
            /\ ~HasPrefix(text) => ~extract_command(text).found

\* "/GO hi" was accepted by a handler for the command "go"
C19_Witness ==
    /\ Processed
    /\ last.event.text = GoHi
    /\ \E k \in HandlerCalls : CommandsOnly(HandlerAt(k))

\* "/hi go" was turned down by a handler for the command "go"
C19_WitnessOtherCommand ==
    /\ Processed
    /\ last.event.text = SlashHiGo
    /\ \E k \in MessageChecks :
          CommandsOnly(HandlerAt(k)) /\ trace[k].result = "False"

\* "go", without the prefix, was turned down by a handler for the command "go"
C19_WitnessNoPrefix ==
    /\ Processed
    /\ last.event.text = Go
    /\ \E k \in MessageChecks :
          CommandsOnly(HandlerAt(k)) /\ trace[k].result = "False"

-----------------------------------------------------------------------------
(* The chat-type filter *)

\* registered with chat_types=[type] and nothing else
ChatTypeOnly(h, type) ==
    /\ h.chat_types = {type}
    /\ h.commands = {}
    /\ h.regexp = {}
    /\ h.func = {}
    /\ ~h.state.declared
    /\ h.content_types = {"text"}

\* the same handler for the other chat type
Twin(h) == [h EXCEPT !.chat_types = {"private", "group"} \ @]

\* a text message that carries the id of its chat
TextInChat(E) ==
    E.type = "message_new" /\ content_type(E) = "text" /\ E.peer_id # NoneId

\* C20: for a text message, of a handler registered with
\* chat_types=['private'] and one registered with chat_types=['group']
\* exactly one has a true check: the private one when the chat id is the
\* sender's id, the group one when the chat id is above 2000000000.
C20_ChatTypesPartitionTextMessages ==
    (Processed /\ TextInChat(last.event)) =>
        \A k \in MessageChecks :
            LET h == HandlerAt(k)
                E == last.event
            IN  (ChatTypeOnly(h, "private") \/ ChatTypeOnly(h, "group")) =>
                  /\ trace[k].result \in {"True", "False"}
                  /\ trace[k].result = "True" <=>
                        MessageHandler_eval(Twin(h), E, StateAtDispatch).result = "False"
                  /\ (ChatTypeOnly(h, "private") /\ E.peer_id = E.from_id) =>
                        trace[k].result = "True"
                  /\ (ChatTypeOnly(h, "group") /\ E.peer_id > 2000000000) =>
                        trace[k].result = "True"

\* a text message of a private chat was turned down by the handler for
\* groups and accepted by the handler for private chats
C20_Witness ==
    /\ Processed
    /\ TextInChat(last.event)
    /\ last.event.peer_id = last.event.from_id
    /\ \E k \in MessageChecks :
          ChatTypeOnly(HandlerAt(k), "group") /\ trace[k].result = "False"
    /\ \E k \in HandlerCalls : ChatTypeOnly(HandlerAt(k), "private")

\* a text message of a group chat was turned down by the handler for private
\* chats and accepted by the handler for groups
C20_WitnessGroup ==
    /\ Processed
    /\ TextInChat(last.event)
    /\ last.event.peer_id > GroupThreshold
    /\ \E k \in MessageChecks :
          ChatTypeOnly(HandlerAt(k), "private") /\ trace[k].result = "False"
    /\ \E k \in HandlerCalls : ChatTypeOnly(HandlerAt(k), "group")

-----------------------------------------------------------------------------
(* Handlers that take the StateContext: an application of two users whose  *)
(* handlers read and write the sender's entry through the context          *)

\* a bound of the model: the number of handlers this application registers
MaxContextRegistered == 2

ContextHandlerChoices ==
    {MessageHandler("remember", {}, {}, {}, {}, {}, NoStateFilter),
     MessageHandler("advance", {}, {}, {}, {}, {}, StateName("s1")),
     MessageHandler("done", {}, {}, {}, {}, {}, StateName("s2")),
     MessageHandler("enter_s1", {}, {}, {}, {}, {}, NoStateFilter)}

ContextCallbackChoices ==
    {CallbackQueryHandler("done", {}, {}, NoStateFilter)}

ContextEvents ==
    {Event("message_new", 1, 1, Hi, << >>, {}),
     Event("message_new", 2, 2, Hi, << >>, {}),
     Event("message_event", 2, 2, << >>, << >>, {Ok})}

ContextRegistering ==
    Len(message_handlers) + Len(callback_query_handlers) < MaxContextRegistered

NextContext ==
    \/ \E h \in ContextHandlerChoices : ContextRegistering /\ message_handler(h)
    \/ \E h \in ContextCallbackChoices :
          ContextRegistering /\ callback_query_handler(h)
    \/ add_state("s1", [group |-> None, on_enter |-> FALSE, on_exit |-> FALSE])
    \/ \E u \in Users : BotSetState(u, "s1")
    \/ UpdateData(1, ("b" :> 2))
    \/ \E E \in ContextEvents : ProcessUpdate(E)

SpecContext == Init /\ [][NextContext]_vars

\* the callbacks whose signature has two parameters
TwoParameters == {"done", "remember", "advance"}

\* the handler call the step made, if it made one
CallsAfter == {k \in DOMAIN trace' : trace'[k].kind = "handler"}
CalledAfter(k) ==
    (IF trace'[k].list = "message" THEN message_handlers
     ELSE callback_query_handlers)[trace'[k].index]

\* C21: a handler's callback is given the StateContext iff its signature has
\* two parameters or more, as recorded when the handler was registered; the
\* context it is given is the sender's: what the callback does through it
\* (update, set, finish) shows in the sender's state and data, and the state
\* and data of every other user stay as they were.
C21_ContextInjectedByArityBoundToSender ==
    /\ \A i \in DOMAIN message_handlers :
          message_handlers[i].accepts_state
              <=> message_handlers[i].callback \in TwoParameters
    /\ \A i \in DOMAIN callback_query_handlers :
          callback_query_handlers[i].accepts_state
              <=> callback_query_handlers[i].callback \in TwoParameters
    /\ [][last'.op = "_process_update" =>
            /\ \A v \in UserIds \ {last'.user} :
                  _states'[v] = _states[v] /\ DataAfter(v) = Data(v)
            /\ \A k \in CallsAfter :
                  LET c == CalledAfter(k).callback
                      u == last'.event.from_id
                  IN  /\ trace'[k].with_context <=> c \in TwoParameters
                      /\ c = "remember" =>
                            DataAfter(u) = dict_update(Data(u), ("a" :> 1))
                      /\ (c = "advance" /\ last'.result = "ok") =>
                            _states'[u] = "s2"
                      /\ c = "done" =>
                            _states'[u] = None /\ DataAfter(u) = EmptyDict]_vars

\* a handler of two parameters finished the state of user 2 through the
\* context it was given, while user 1 keeps a state and data
C21_Witness ==
    /\ Processed
    /\ last.user = 2
    /\ last.was = "s2"
    /\ _states[2] = None
    /\ _states[1] # None
    /\ Data(1) # EmptyDict
    /\ \E k \in HandlerCalls : trace[k].with_context /\ HandlerAt(k).callback = "done"

\* a handler of one parameter was called without the context
C21_WitnessOneParameter ==
    /\ Processed
    /\ \E k \in HandlerCalls :
          ~trace[k].with_context /\ HandlerAt(k).callback = "enter_s1"

-----------------------------------------------------------------------------
(* StateContext.finish *)

\* the hooks a step ran, by name, in order
HooksAfter == [i \in DOMAIN trace' |-> trace'[i].hook]

\* C22: finish() on a user's context leaves the user without stored state
\* and data and the scratch pointer null.  If the pointer was null no hook
\* runs; otherwise a transition from the pointer's state to no state runs:
\* the exit hook of that state (when the state is declared with one), then
\* the any-transition hook (when one is set), and no enter hook.
C22_FinishClearsAndLeavesPointerState ==
    [][last'.op = "finish" =>
          /\ _states'[last'.user] = None
          /\ DataAfter(last'.user) = EmptyDict
          /\ current_state' = None
          /\ current_state = None => trace' = << >>
          /\ current_state # None =>
                LET exits == /\ current_state \in DOMAIN states
                             /\ states[current_state].on_exit
                IN  /\ HooksAfter =
                          (IF exits THEN <<"on_exit">> ELSE << >>) \o
                          (IF on_any_transition THEN <<"on_any_transition">>
                           ELSE << >>)
                    /\ exits => trace'[1].state = current_state
                    /\ on_any_transition => trace'[Len(trace')].state = None]_vars

\* finish ran the exit hook of the pointer's state and the any-transition hook
C22_Witness ==
    /\ last.op = "finish"
    /\ Len(trace) = 2
    /\ trace[1].hook = "on_exit"
    /\ trace[1].state \in StateNames
    /\ trace[2].hook = "on_any_transition"
    /\ current_state = None
    /\ _states[last.user] = None

\* finish on a context whose pointer was null, of a user with a state: the
\* any-transition hook is set and did not run
C22_WitnessNull ==
    /\ last.op = "finish"
    /\ last.was # None
    /\ on_any_transition
    /\ trace = << >>

-----------------------------------------------------------------------------
(* Several users on the FSM of one name *)

GroupNames == {"g", "h"}

GroupInfos ==
    {[group |-> g, on_enter |-> FALSE, on_exit |-> FALSE] : g \in GroupNames}

\* StateContext.is_in_group(group) on the context of user u
CtxIsInGroup(u, group) ==
    /\ u \in contexts
    /\ last' = [op |-> "is_in_group", user |-> u, state |-> None,
                kw |-> EmptyDict, was |-> _states[u],
                result |-> is_in_group(World, u, group), group |-> group]
    /\ UNCHANGED <<storeVars, fsmConfigVars, current_state, contexts,
                   registryVars, pollVars, writers, trace>>

NextGroup ==
    \/ \E n \in StateNames, i \in GroupInfos : add_state(n, i)
    \/ \E u \in Users, s \in StateNames : BotSetState(u, s)
    \/ \E u \in Users : NewContext(u)
    \/ \E u \in Users, g \in GroupNames : CtxIsInGroup(u, g)

SpecGroup == Init /\ [][NextGroup]_vars

\* the user's stored state is declared with group tag g
StoredStateInGroup(u, g) ==
    /\ _states[u] # None
    /\ _states[u] \in DOMAIN states
    /\ states[_states[u]].group = g

\* C23 as stated: whatever contexts were built and whatever the users did in
\* between, is_in_group(g) on the context of user u is true iff the stored
\* state of u is declared with group tag g, and false when u has no state.
C23_IsInGroupFollowsStoredState ==
    last.op = "is_in_group" =>
        /\ last.result = "True" <=> StoredStateInGroup(last.user, last.group)
        /\ _states[last.user] = None => last.result = "False"

-----------------------------------------------------------------------------
(* StateManager.update_data statement by statement, run by several threads *)

WriterStep(op, w, M) ==
    /\ Commit(M)
    /\ last' = [op |-> op, user |-> writers.proc[w].user, state |-> None,
                kw |-> writers.proc[w].kw, was |-> _states[writers.proc[w].user],
                result |-> "ok", writer |-> w]
    /\ UNCHANGED <<fsmConfigVars, contexts, registryVars, pollVars>>

\* a thread enters update_data(user_id, **kwargs):
\* data = self.get_data(user_id)
UpdateRead(w, u, kw) ==
    /\ writers.proc[w].pc = "idle"
    /\ writers' = [writers EXCEPT
          !.proc[w] = [pc |-> "read", user |-> u, kw |-> kw,
                       data |-> StoredDict(World, u)],
          !.overlapped = @ \/ \E v \in Writers \ {w} : writers.proc[v].pc # "idle"]
    /\ Commit(World)
    /\ last' = [op |-> "update_read", user |-> u, state |-> None, kw |-> kw,
                was |-> _states[u], result |-> "ok", writer |-> w]
    /\ UNCHANGED <<fsmConfigVars, contexts, registryVars, pollVars>>

\* data.update(kwargs)
UpdateMerge(w) ==
    /\ writers.proc[w].pc = "read"
    /\ writers' = [writers EXCEPT
          !.proc[w].pc = "merged",
          !.proc[w].data = dict_update(@, writers.proc[w].kw)]
    /\ WriterStep("update_merge", w, World)

\* self.set_data(user_id, data), and update_data returns
UpdateWrite(w) ==
    /\ writers.proc[w].pc = "merged"
    /\ LET u == writers.proc[w].user
           r == NewRef(heap)
           M == set_data([World EXCEPT !.hp = (r :> writers.proc[w].data) @@ @], u, r)
       IN  /\ writers' = [writers EXCEPT
                  !.proc[w] = IdleWriter,
                  !.acked[u] = @ \cup DOMAIN writers.proc[w].kw]
           /\ WriterStep("update_write", w, M)

NextWriters ==
    \/ \E w \in Writers, u \in Users, kw \in KwArgs : UpdateRead(w, u, kw)
    \/ \E w \in Writers : UpdateMerge(w)
    \/ \E w \in Writers : UpdateWrite(w)

SpecWriters == Init /\ [][NextWriters]_vars

\* a key of a call that returned is not in what get_data answers
LostUpdate(u) == \E k \in writers.acked[u] : k \notin DOMAIN Data(u)

\* C24: update_data reads the whole map, merges and writes the whole map in
\* separate steps.  As long as no call started while another was under way
\* no update is lost: every key of a call that returned is in the user's
\* data, with the value given.  (That concurrent calls can lose an update is
\* the reachable state C24_Witness.)
C24_SequentialUpdatesAreNeverLost ==
    ~writers.overlapped =>
        \A u \in Users :
            /\ ~LostUpdate(u)
            /\ \A kw \in KwArgs :
                  DOMAIN kw \subseteq writers.acked[u] =>
                      \A k \in DOMAIN kw : Data(u)[k] = kw[k]

\* two calls for user 1 with different keys ran concurrently, both returned,
\* and the key of one of them is missing from the data of user 1
C24_Witness ==
    /\ writers.overlapped
    /\ \A w \in Writers : writers.proc[w].pc = "idle"
    /\ writers.acked[1] = {"a", "b"}
    /\ LostUpdate(1)

\* two calls for user 1 ran one after the other and both keys are there
C24_WitnessSequential ==
    /\ ~writers.overlapped
    /\ writers.acked[1] = {"a", "b"}
    /\ DOMAIN Data(1) = {"a", "b"}

-----------------------------------------------------------------------------
(* Callback events: the payload of a message_event and CallbackQuery       *)

\* Python values of JSON documents: None, a bool, a str (its characters), a
\* dict with str keys (keys and vals in insertion order), a list
PyNone == [type |-> "NoneType", text |-> << >>, keys |-> << >>, vals |-> << >>]
PyStr(text) == [type |-> "str", text |-> text, keys |-> << >>, vals |-> << >>]
PyDict(keys, vals) == [type |-> "dict", text |-> << >>, keys |-> keys, vals |-> vals]
PyList(items) == [type |-> "list", text |-> << >>, keys |-> << >>, vals |-> items]
PyBool(flag) ==
    [type |-> "bool",
     text |-> IF flag THEN <<"t", "r", "u", "e">> ELSE <<"f", "a", "l", "s", "e">>,
     keys |-> << >>, vals |-> << >>]

\* bool(value)
Truthy(value) ==
    CASE value.type = "NoneType" -> FALSE
      [] value.type = "str" -> value.text # << >>
      [] value.type = "dict" -> value.keys # << >>
      [] value.type = "list" -> value.vals # << >>
      [] value.type = "bool" -> value = PyBool(TRUE)

\* dict.get(key): the value under key, or None
dict_get(d, key) ==
    IF \E i \in DOMAIN d.keys : d.keys[i] = key
    THEN d.vals[CHOOSE i \in DOMAIN d.keys : d.keys[i] = key]
    ELSE PyNone

Quote == "\""

\* a JSON string literal without escapes: "...", no quote inside
Quoted(text) ==
    /\ Len(text) >= 2
    /\ text[1] = Quote
    /\ text[Len(text)] = Quote
    /\ \A i \in 2 .. Len(text) - 1 : text[i] # Quote

Inner(text) == SubSeq(text, 2, Len(text) - 1)

Bracketed(text, open, close) ==
    Len(text) >= 2 /\ text[1] = open /\ text[Len(text)] = close

\* text without the spaces in front of it
RECURSIVE LStrip(_)
LStrip(text) ==
    IF text # << >> /\ Head(text) = " " THEN LStrip(Tail(text)) ELSE text

\* the places where the body of an object splits into "key":"value", with
\* or without spaces after the colon
PairSplits(body) ==
    {i \in DOMAIN body :
        /\ body[i] = ":"
        /\ Quoted(SubSeq(body, 1, i - 1))
        /\ Quoted(LStrip(SubSeq(body, i + 1, Len(body))))}

\* a json.loads that accepts no document
json_loads_rejects(text) == [ok |-> FALSE, value |-> PyNone]

\* json.loads on the documents of the model: a string literal, an object of
\* no or one member, an array of no or one string; ok is false where
\* json.loads raises JSONDecodeError
json_loads(text) ==
    IF Quoted(text) THEN [ok |-> TRUE, value |-> PyStr(Inner(text))]
    ELSE IF Bracketed(text, "{", "}")
    THEN (IF Inner(text) = << >> THEN [ok |-> TRUE, value |-> PyDict(<< >>, << >>)]
          ELSE IF PairSplits(Inner(text)) # {}
          THEN LET body == Inner(text)
                   i == CHOOSE i \in PairSplits(body) : TRUE
               IN  [ok |-> TRUE,
                    value |-> PyDict(<<Inner(SubSeq(body, 1, i - 1))>>,
                                     <<PyStr(Inner(LStrip(SubSeq(body, i + 1, Len(body)))))>>)]
          ELSE [ok |-> FALSE, value |-> PyNone])
    ELSE IF Bracketed(text, "[", "]")
    THEN (IF Inner(text) = << >> THEN [ok |-> TRUE, value |-> PyList(<< >>)]
          ELSE IF Quoted(Inner(text))
          THEN [ok |-> TRUE, value |-> PyList(<<PyStr(Inner(Inner(text)))>>)]
          ELSE [ok |-> FALSE, value |-> PyNone])
    ELSE [ok |-> FALSE, value |-> PyNone]

DataKey == <<"d", "a", "t", "a">>

\* CallbackQuery.from_dict(data): raw is the object of a message_event
CallbackQuery_from_dict(raw) ==
    LET given == raw.payload
        payload == IF Truthy(given) /\ given.type = "str" /\ json_loads(given.text).ok
                   THEN json_loads(given.text).value
                   ELSE given
        data_value == IF Truthy(payload) /\ payload.type = "dict"
                      THEN dict_get(payload, DataKey)
                      ELSE PyNone
    IN  [from_id |-> raw.user_id, peer_id |-> raw.peer_id,
         payload |-> payload, data |-> data_value]

\* the event _process_update dispatches for a message_event with this object
CallbackEvent(raw) ==
    LET cb == CallbackQuery_from_dict(raw)
    IN  Event("message_event", cb.from_id, cb.peer_id, << >>, << >>,
              IF cb.data.type = "str" THEN {cb.data.text} ELSE {})

\* the characters of a str as json.dumps writes them: a quote and a
\* backslash get a backslash in front
RECURSIVE Escape(_)
Escape(text) ==
    IF text = << >> THEN << >>
    ELSE (IF Head(text) \in {Quote, "\\"} THEN <<"\\", Head(text)>>
          ELSE <<Head(text)>>) \o Escape(Tail(text))

\* json.dumps of a str
dumps_str(text) == <<Quote>> \o Escape(text) \o <<Quote>>

\* ", ".join(parts)
RECURSIVE Join(_)
Join(parts) ==
    IF parts = << >> THEN << >>
    ELSE IF Len(parts) = 1 THEN parts[1]
    ELSE parts[1] \o <<",", " ">> \o Join(Tail(parts))

\* json.dumps(value) with its default separators ", " and ": "
RECURSIVE json_dumps(_)
json_dumps(value) ==
    CASE value.type = "NoneType" -> <<"n", "u", "l", "l">>
      [] value.type = "bool" -> value.text
      [] value.type = "str" -> dumps_str(value.text)
      [] value.type = "list" ->
            <<"[">> \o Join([i \in DOMAIN value.vals |-> json_dumps(value.vals[i])])
                   \o <<"]">>
      [] value.type = "dict" ->
            <<"{">> \o Join([i \in DOMAIN value.keys |->
                               dumps_str(value.keys[i]) \o <<":", " ">>
                                   \o json_dumps(value.vals[i])])
                   \o <<"}">>

\* json.dumps({key: value}) for a str value
dumps_dict(key, value) == json_dumps(PyDict(<<key>>, <<PyStr(value)>>))

\* the same document written without the space
CompactObject(key, value) ==
    <<"{">> \o dumps_str(key) \o <<":">> \o dumps_str(value) \o <<"}">>

\* a bound of the model: the number of callback handlers registered
MaxCallbackRegistered == 2

Payloads ==
    {PyStr(CompactObject(DataKey, Ok)),
     PyStr(dumps_dict(DataKey, Ok)),
     PyDict(<<DataKey>>, <<PyStr(Ok)>>),
     PyStr(CompactObject(DataKey, Hi)),
     PyStr(CompactObject(DataKey, << >>)),
     PyStr(CompactObject(Hi, Ok)),
     PyDict(<<Hi>>, <<PyStr(Ok)>>),
     PyStr(<<"{", "}">>),
     PyStr(Ok),
     PyStr(dumps_str(Ok)),
     PyStr(<<"[">> \o dumps_str(Ok) \o <<"]">>),
     PyNone}

\* the objects of the message_event updates
RawCallbacks ==
    {[user_id |-> 1, peer_id |-> 1, payload |-> p] : p \in Payloads}
    \cup {[user_id |-> 2, peer_id |-> 2, payload |-> PyStr(CompactObject(DataKey, Ok))]}

CallbackChoices ==
    {CallbackQueryHandler("reply", {}, {[literal |-> <<"o">>, anchored |-> TRUE]},
                          NoStateFilter),
     CallbackQueryHandler("reply", {"from_user_1"},
                          {[literal |-> <<"k">>, anchored |-> FALSE]},
                          StateName("s1")),
     CallbackQueryHandler("reply", {}, {[literal |-> <<"h">>, anchored |-> TRUE]},
                          NoStateFilter),
     CallbackQueryHandler("reply", {}, {}, NoStateFilter)}

\* VKBot._process_update for a message_event whose object is raw
ProcessCallback(raw) ==
    /\ \E api \in ApiAnswers :
       \E M \in {_process_update([World EXCEPT !.api = api], CallbackEvent(raw))} :
          /\ Commit(M)
          /\ last' = [op |-> "_process_update", user |-> raw.user_id,
                      state |-> None, kw |-> EmptyDict,
                      was |-> _states[raw.user_id], result |-> Outcome(M),
                      event |-> CallbackEvent(raw), raw |-> raw,
                      callback_query |-> CallbackQuery_from_dict(raw)]
    /\ UNCHANGED <<fsmConfigVars, contexts, registryVars, pollVars, writers>>

NextCallback ==
    \/ \E h \in CallbackChoices :
          /\ Len(callback_query_handlers) < MaxCallbackRegistered
          /\ callback_query_handler(h)
    \/ \E u \in Users : BotSetState(u, "s1")
    \/ \E raw \in RawCallbacks : ProcessCallback(raw)

SpecCallback == Init /\ [][NextCallback]_vars

-----------------------------------------------------------------------------
(* The data filter of callback handlers *)

CallbackChecks ==
    {k \in DOMAIN trace : trace[k].kind = "check" /\ trace[k].list = "callback"}

ProcessedCallback == Processed /\ "callback_query" \in DOMAIN last

\* the data field is there and the pattern of handler h is found in it
DataMatches(h) ==
    /\ last.callback_query.data.type = "str"
    /\ last.callback_query.data.text # << >>
    /\ \A p \in h.data : Search(p, last.callback_query.data.text)

\* C25: the check of a callback handler registered with a data pattern is
\* true iff the event's data field is present, the pattern is found in it,
\* and the handler's state filter and custom predicate, if any, pass; such a
\* handler is invoked only for events whose data matches, and it is invoked
\* when its check is the first true one.
C25_DataPatternSelectsCallbacks ==
    ProcessedCallback =>
        /\ \A k \in CallbackChecks :
              LET h == HandlerAt(k)
              IN  h.data # {} =>
                    (trace[k].result = "True" <=>
                        /\ DataMatches(h)
                        /\ h.state.declared => StateAtDispatch \in h.state.names
                        /\ \A g \in h.func : FuncHolds(g, last.event))
        /\ \A k \in HandlerCalls :
              /\ HandlerAt(k).data # {} => DataMatches(HandlerAt(k))
              /\ \E j \in CallbackChecks :
                    trace[j].index = trace[k].index /\ trace[j].result = "True"
        /\ \A j \in CallbackChecks :
              trace[j].result = "True" =>
                  \E k \in HandlerCalls : trace[k].index = trace[j].index

\* an event whose data does not match the first handler's pattern was turned
\* down by it and given to a second handler whose pattern it matches
C25_Witness ==
    /\ ProcessedCallback
    /\ \E j \in CallbackChecks :
          /\ HandlerAt(j).data # {}
          /\ ~DataMatches(HandlerAt(j))
          /\ trace[j].result = "False"
    /\ \E k \in HandlerCalls :
          HandlerAt(k).data # {} /\ DataMatches(HandlerAt(k))

\* an event without data field invoked no handler with a data pattern
C25_WitnessNoData ==
    /\ ProcessedCallback
    /\ last.callback_query.data = PyNone
    /\ HandlerCalls = {}
    /\ CallbackChecks # {}

-----------------------------------------------------------------------------
(* The payload of a callback query *)

\* the payload is a JSON object {"data": value}, as text or already decoded
CarriesData(payload, value) ==
    \/ payload = PyStr(CompactObject(DataKey, value))
    \/ payload = PyStr(dumps_dict(DataKey, value))
    \/ payload = PyDict(<<DataKey>>, <<PyStr(value)>>)

\* the payload is neither an object nor the text of a JSON object
NotAnObject(payload) ==
    /\ payload.type # "dict"
    /\ payload.type = "str" => (payload.text = << >> \/ Head(payload.text) # "{")

\* C26: a payload that is the JSON text {"data": v}, or the equivalent
\* object, gives a callback query whose data is v and whose payload is the
\* decoded object; a payload that is not a JSON object gives a callback
\* query whose data is None.
C26_PayloadDecodesToData ==
    ProcessedCallback =>
        /\ \A value \in {Ok, Hi} :
              CarriesData(last.raw.payload, value) =>
                  /\ last.callback_query.data = PyStr(value)
                  /\ last.callback_query.payload = PyDict(<<DataKey>>, <<PyStr(value)>>)
        /\ NotAnObject(last.raw.payload) => last.callback_query.data = PyNone

\* the text json.dumps writes for {"data": "ok"} was decoded
C26_Witness ==
    /\ ProcessedCallback
    /\ last.raw.payload = PyStr(dumps_dict(DataKey, Ok))
    /\ last.callback_query.data = PyStr(Ok)

\* a payload that is a JSON array was given the data None
C26_WitnessNotAnObject ==
    /\ ProcessedCallback
    /\ last.raw.payload = PyStr(<<"[">> \o dumps_str(Ok) \o <<"]">>)
    /\ last.callback_query.payload = PyList(<<PyStr(Ok)>>)
    /\ last.callback_query.data = PyNone

-----------------------------------------------------------------------------
(* Sending: keyboards and the parameters of messages.send                  *)

\* the characters of the str literals of the keyboard dictionaries
Str(word) ==
    CASE word = "action" -> <<"a", "c", "t", "i", "o", "n">>
      [] word = "type" -> <<"t", "y", "p", "e">>
      [] word = "label" -> <<"l", "a", "b", "e", "l">>
      [] word = "color" -> <<"c", "o", "l", "o", "r">>
      [] word = "buttons" -> <<"b", "u", "t", "t", "o", "n", "s">>
      [] word = "one_time" -> <<"o", "n", "e", "_", "t", "i", "m", "e">>
      [] word = "inline" -> <<"i", "n", "l", "i", "n", "e">>
      [] word = "callback" -> <<"c", "a", "l", "l", "b", "a", "c", "k">>
      [] word = "payload" -> <<"p", "a", "y", "l", "o", "a", "d">>
      [] word = "text" -> <<"t", "e", "x", "t">>
      [] word = "primary" -> <<"p", "r", "i", "m", "a", "r", "y">>
      [] word = "Start" -> <<"S", "t", "a", "r", "t">>

\* KeyboardButton(text, color) and InlineKeyboardButton(text, callback_data)
KeyboardButton(text, color) ==
    [class |-> "KeyboardButton", text |-> text, color |-> color,
     callback_data |-> << >>]
InlineKeyboardButton(text, callback_data) ==
    [class |-> "InlineKeyboardButton", text |-> text, color |-> << >>,
     callback_data |-> callback_data]

\* KeyboardButton.to_dict
KeyboardButton_to_dict(btn) ==
    PyDict(<<Str("action"), Str("color")>>,
           <<PyDict(<<Str("type"), Str("label")>>, <<PyStr(Str("text")), PyStr(btn.text)>>),
             PyStr(btn.color)>>)

\* InlineKeyboardButton.to_dict for a button with or without callback_data
\* (link and application buttons are not modelled)
InlineKeyboardButton_to_dict(btn) ==
    PyDict(<<Str("action")>>,
           <<IF btn.callback_data # << >>
             THEN PyDict(<<Str("type"), Str("label"), Str("payload")>>,
                         <<PyStr(Str("callback")), PyStr(btn.text),
                           PyStr(dumps_dict(DataKey, btn.callback_data))>>)
             ELSE PyDict(<<Str("type"), Str("label")>>,
                         <<PyStr(Str("text")), PyStr(btn.text)>>)>>)

btn_to_dict(btn) ==
    IF btn.class = "KeyboardButton" THEN KeyboardButton_to_dict(btn)
    ELSE InlineKeyboardButton_to_dict(btn)

\* the markups: keyboard is the list of rows that add() has built
ReplyKeyboardMarkup(one_time_keyboard, keyboard) ==
    [class |-> "ReplyKeyboardMarkup", keyboard |-> keyboard,
     one_time_keyboard |-> one_time_keyboard]
InlineKeyboardMarkup(keyboard) ==
    [class |-> "InlineKeyboardMarkup", keyboard |-> keyboard,
     one_time_keyboard |-> FALSE]

\* reply_markup=None
NoMarkup == [class |-> "NoneType", keyboard |-> << >>, one_time_keyboard |-> FALSE]

\* [[btn.to_dict() for btn in row] for row in self.keyboard]
ButtonRows(markup) ==
    PyList([r \in DOMAIN markup.keyboard |->
              PyList([c \in DOMAIN markup.keyboard[r] |->
                        btn_to_dict(markup.keyboard[r][c])])])

\* ReplyKeyboardMarkup.to_dict and InlineKeyboardMarkup.to_dict
markup_to_dict(markup) ==
    IF markup.class = "ReplyKeyboardMarkup"
    THEN PyDict(<<Str("buttons"), Str("one_time")>>,
                <<ButtonRows(markup), PyBool(markup.one_time_keyboard)>>)
    ELSE PyDict(<<Str("buttons"), Str("inline")>>,
                <<ButtonRows(markup), PyBool(TRUE)>>)

\* reply_to=None, which is no message id
NoReplyTo == -1

\* the function with no argument: an empty **kwargs
NoKwargs == [k \in {} |-> 0]

\* time.time() is given in tenths of a millisecond; int(time.time() * 1000)
random_id(now) == now \div 10

\* apihelper.send_message: the params handed to _make_request with
\* 'messages.send'; reply_markup is a dict or None, reply_to an int or None
apihelper_send_message(chat_id, text, reply_markup, reply_to, kwargs, now) ==
    LET base == kwargs @@ [user_id |-> chat_id, message |-> text,
                           random_id |-> random_id(now)]
        with_keyboard ==
            IF Truthy(reply_markup) /\ reply_markup.type = "dict"
            THEN [keyboard |-> json_dumps(reply_markup)] @@ base
            ELSE base
    IN  IF reply_to # NoReplyTo /\ reply_to # 0
        THEN [reply_to |-> reply_to] @@ with_keyboard
        ELSE with_keyboard

\* VKBot.send_message
send_message(chat_id, text, reply_markup, reply_to, kwargs, now) ==
    apihelper_send_message(chat_id, text,
                           IF reply_markup # NoMarkup THEN markup_to_dict(reply_markup)
                           ELSE PyNone,
                           reply_to, kwargs, now)

\* types.Message with the fields reply_to reads; message.chat.id is
\* Chat.from_peer_id(peer_id).id
MessageChatId(message) == message.peer_id

\* VKBot.reply_to
reply_to(message, text, kwargs, now) ==
    send_message(MessageChatId(message), text, NoMarkup, message.id, kwargs, now)

Markups ==
    {NoMarkup,
     ReplyKeyboardMarkup(TRUE, <<<<KeyboardButton(Str("Start"), Str("primary"))>>>>),
     ReplyKeyboardMarkup(FALSE, <<<<KeyboardButton(Hi, Str("primary")),
                                    KeyboardButton(Ok, Str("primary"))>>>>),
     InlineKeyboardMarkup(<<<<InlineKeyboardButton(Ok, Ok)>>,
                            <<InlineKeyboardButton(Hi, << >>)>>>>)}

ChatIds == {1, GroupThreshold + 1}

KwargsChoices == {NoKwargs, [disable_mentions |-> 1], [dont_parse_links |-> 1]}

\* readings of the clock, in tenths of a millisecond
Times == {17, 25, 30}

SentMessages ==
    {[id |-> 4096, peer_id |-> GroupThreshold + 1, from_id |-> 1],
     [id |-> 7, peer_id |-> 1, from_id |-> 1],
     [id |-> 0, peer_id |-> 2, from_id |-> 2]}

\* bot.send_message(chat_id, text, reply_markup=markup, **kwargs)
SendMessage(chat_id, text, markup, kwargs, now) ==
    /\ last' = [op |-> "send_message", method |-> "messages.send",
                params |-> send_message(chat_id, text, markup, NoReplyTo, kwargs, now),
                chat_id |-> chat_id, text |-> text, markup |-> markup,
                kwargs |-> kwargs]
    /\ UNCHANGED <<storeVars, fsmConfigVars, current_state, contexts,
                   registryVars, pollVars, writers, trace>>

\* bot.reply_to(message, text)
ReplyTo(message, text, now) ==
    /\ last' = [op |-> "reply_to", method |-> "messages.send",
                params |-> reply_to(message, text, NoKwargs, now),
                message |-> message, text |-> text]
    /\ UNCHANGED <<storeVars, fsmConfigVars, current_state, contexts,
                   registryVars, pollVars, writers, trace>>

NextSend ==
    \/ \E chat_id \in ChatIds, text \in {Hi, Ok}, markup \in Markups,
          kwargs \in KwargsChoices, now \in Times :
          SendMessage(chat_id, text, markup, kwargs, now)
    \/ \E message \in SentMessages, text \in {Hi, Ok}, now \in Times :
          ReplyTo(message, text, now)

SpecSend == Init /\ [][NextSend]_vars

\* C27: send_message issues messages.send with peer_id equal to chat_id,
\* message equal to text, a positive integer random_id, every extra keyword
\* parameter, and keyboard equal to the JSON text of the markup's
\* dictionary; reply_to issues it with peer_id equal to message.chat.id and
\* reply_to equal to message.id.
C27_SendMessageParameters ==
    /\ last.op = "send_message" =>
          /\ last.method = "messages.send"
          /\ "peer_id" \in DOMAIN last.params
          /\ last.params["peer_id"] = last.chat_id
          /\ last.params["message"] = last.text
          /\ last.params["random_id"] \in Nat \ {0}
          /\ \A k \in DOMAIN last.kwargs : last.params[k] = last.kwargs[k]
          /\ last.markup # NoMarkup =>
                last.params["keyboard"] = json_dumps(markup_to_dict(last.markup))
    /\ last.op = "reply_to" =>
          /\ last.method = "messages.send"
          /\ "peer_id" \in DOMAIN last.params
          /\ last.params["peer_id"] = MessageChatId(last.message)
          /\ "reply_to" \in DOMAIN last.params
          /\ last.params["reply_to"] = last.message.id

-----------------------------------------------------------------------------
(* can_transition on its own *)

\* the transitions offered to add_transition when can_transition is asked
GateRules ==
    Rules \cup
    {[from_state |-> Wildcard, to_state |-> "s2", condition |-> "none", priority |-> 2],
     [from_state |-> "s2", to_state |-> "s1", condition |-> "false", priority |-> 0]}

\* fsm.can_transition(from_state, to_state, context) for the context of u
CanTransition(from_state, to_state, u) ==
    /\ last' = [op |-> "can_transition", user |-> u, state |-> to_state,
                kw |-> EmptyDict, was |-> from_state,
                result |-> can_transition(from_state, to_state, u)]
    /\ UNCHANGED <<storeVars, fsmConfigVars, current_state, contexts,
                   registryVars, pollVars, writers, trace>>

NextGate ==
    \/ \E n \in StateNames, i \in StateInfos : add_state(n, i)
    \/ \E r \in GateRules : add_transition(r)
    \/ \E from_state \in StateNames, to_state \in StateNames, u \in FsmUsers :
          CanTransition(from_state, to_state, u)

SpecGate == Init /\ [][NextGate]_vars

Asked == last.op = "can_transition"

\* C28: can_transition(from, to) is false whenever from is not a declared
\* state, whatever transitions are declared; when from is declared and no
\* transition is declared it is true for every to.
C28_UndeclaredSourceRefusedOpenFsmPermits ==
    Asked =>
        /\ last.was \notin DOMAIN states => last.result = FALSE
        /\ (last.was \in DOMAIN states /\ transitions = << >>) => last.result = TRUE

\* an undeclared source was refused although a rule covers the pair
C28_Witness ==
    /\ Asked
    /\ last.was \notin DOMAIN states
    /\ \E i \in DOMAIN transitions : RuleCovers(transitions[i], last.was, last.state)
    /\ last.result = FALSE

\* an open FSM permitted a pair, also one whose target is not declared
C28_WitnessOpen ==
    /\ Asked
    /\ last.was \in DOMAIN states
    /\ last.state \notin DOMAIN states
    /\ transitions = << >>
    /\ last.result = TRUE

\* the rule matches the pair: source and target are the pair's, or one of
\* them is the wildcard
OneSideMatches(rule, from_state, to_state) ==
    /\ RuleCovers(rule, from_state, to_state)
    /\ ~(rule.from_state = Wildcard /\ rule.to_state = Wildcard)

MatchingRules ==
    {i \in DOMAIN transitions : OneSideMatches(transitions[i], last.was, last.state)}

\* rule i comes before rule j in descending priority order, rules of equal
\* priority in the order of their declaration
Precedes(i, j) ==
    \/ transitions[i].priority > transitions[j].priority
    \/ transitions[i].priority = transitions[j].priority /\ i < j

FirstMatching ==
    CHOOSE i \in MatchingRules : \A j \in MatchingRules \ {i} : Precedes(i, j)

C29_WitnessNoRule ==
    /\ Asked
    /\ last.was \in DOMAIN states
    /\ transitions # << >>
    /\ MatchingRules = {}
    /\ last.result = FALSE

DoubleWildcard(rule) == rule.from_state = Wildcard /\ rule.to_state = Wildcard

\* C30: a rule matches the pair (from, to) exactly when its source is from or
\* the wildcard and its target is to or the wildcard; so when every declared
\* rule is an unguarded rule with wildcard source and wildcard target, every
\* pair with a declared from state is permitted.
C30_RuleMatchesSourceAndTargetOrWildcards ==
    (Asked /\ last.was \in DOMAIN states) =>
        /\ \A i \in DOMAIN transitions :
              RuleMatches(transitions[i], last.was, last.state)
                  <=> RuleCovers(transitions[i], last.was, last.state)
        /\ (/\ transitions # << >>
            /\ \A i \in DOMAIN transitions :
                  DoubleWildcard(transitions[i]) /\ transitions[i].condition = "none")
              => last.result = TRUE

-----------------------------------------------------------------------------
(* transition and VKBot.set_fsm_state *)

\* VKBot.get_fsm: the shared FSM with its pointer at the user's stored state
get_fsm(M, u) == [M EXCEPT !.cur = get_state(M, u)]

\* a set_fsm_state that asks can_transition as StateContext.set does
set_fsm_state_gated(M, u, state) == set(M, u, state)

\* VKBot.set_fsm_state: fsm.transition(fsm.current_state, state, None), then
\* self.set_state(user_id, state)
set_fsm_state(M, u, state) ==
    LET fsm == get_fsm(M, u)
    IN  set_state(transition(fsm, fsm.cur, state, u), u, state)

\* fsm.transition(from_state, to_state, context) called on the shared FSM
FsmTransition(from_state, to_state, u) ==
    /\ \E M \in {transition(World, from_state, to_state, u)} :
          /\ Commit(M)
          /\ last' = [op |-> "transition", user |-> u, state |-> to_state,
                      kw |-> EmptyDict, was |-> from_state, result |-> Outcome(M)]
    /\ UNCHANGED <<fsmConfigVars, contexts, registryVars, pollVars, writers>>

\* bot.set_fsm_state(user_id, state)
SetFsmState(u, state) ==
    /\ Step("set_fsm_state", u, state, EmptyDict, set_fsm_state(World, u, state))
    /\ UNCHANGED <<fsmConfigVars, contexts>>

NextForce ==
    \/ \E n \in StateNames, i \in StateInfos : add_state(n, i)
    \/ \E r \in Rules : add_transition(r)
    \/ SetOnAnyTransition
    \/ \E from_state \in StateNames \cup {None}, to_state \in StateNames,
          u \in FsmUsers : FsmTransition(from_state, to_state, u)
    \/ \E u \in FsmUsers, s \in StateNames : SetFsmState(u, s)

SpecForce == Init /\ [][NextForce]_vars

\* the hooks transition(from, to) runs, by name, in order
HooksOf(from_state, to_state) ==
    (IF from_state \in DOMAIN states /\ states[from_state].on_exit
     THEN <<"on_exit">> ELSE << >>) \o
    (IF to_state \in DOMAIN states /\ states[to_state].on_enter
     THEN <<"on_enter">> ELSE << >>) \o
    (IF on_any_transition THEN <<"on_any_transition">> ELSE << >>)

\* C31: transition(from, to) never consults can_transition or the rules: it
\* runs the exit hook of from if from is declared (with one), then the enter
\* hook of to if to is declared (with one), then the any-transition hook if
\* one is registered, sets the scratch pointer to to and succeeds; and
\* set_fsm_state(u, s) does this from u's stored state and stores s, whatever
\* can_transition says about the pair.
C31_TransitionIsUnconditional ==
    [][/\ last'.op = "transition" =>
            /\ HooksAfter = HooksOf(last'.was, last'.state)
            /\ current_state' = last'.state
            /\ last'.result = "ok"
            /\ _states' = _states
       /\ last'.op = "set_fsm_state" =>
            /\ HooksAfter = HooksOf(_states[last'.user], last'.state)
            /\ current_state' = last'.state
            /\ _states'[last'.user] = last'.state
            /\ last'.result = "ok"]_vars

\* set_fsm_state stored a state that the guard of the only covering rule
\* refuses, and ran the exit and enter hooks in that order
C31_Witness ==
    /\ last.op = "set_fsm_state"
    /\ last.was \in DOMAIN states
    /\ transitions # << >>
    /\ ~can_transition(last.was, last.state, last.user)
    /\ _states[last.user] = last.state
    /\ Len(trace) >= 2
    /\ trace[1].hook = "on_exit"
    /\ trace[2].hook = "on_enter"

\* transition ran from an undeclared state on a closed FSM
C31_WitnessTransition ==
    /\ last.op = "transition"
    /\ last.was \notin DOMAIN states
    /\ transitions # << >>
    /\ current_state = last.state
    /\ on_any_transition
    /\ trace # << >>

-----------------------------------------------------------------------------
(* Middlewares and the state the handlers see *)

MiddleMiddlewareChoices ==
    {MiddlewareHandler("enter_s1", {}),
     MiddlewareHandler("enter_s1", {"message_event"}),
     MiddlewareHandler("veto", {"message_event"}),
     MiddlewareHandler("probe", {"message_new", "user_online"})}

MiddleHandlerChoices ==
    {MessageHandler("reply", {}, {}, {}, {}, {}, StateName("s1")),
     MessageHandler("reply", {}, {}, {}, {}, {}, StateFilter({None}))}

MiddleCallbackChoices ==
    {CallbackQueryHandler("reply", {}, {}, StateName("s1"))}

MiddleEvents ==
    {Event("message_new", 1, 1, Hi, << >>, {}),
     Event("message_event", 1, 1, << >>, << >>, {Ok}),
     Event("user_online", 1, 1, << >>, << >>, {})}

NextMiddle ==
    \/ \E mw \in MiddleMiddlewareChoices : middleware_handler(mw)
    \/ \E h \in MiddleHandlerChoices : message_handler(h)
    \/ \E h \in MiddleCallbackChoices : callback_query_handler(h)
    \/ ResetState(1)
    \/ \E E \in MiddleEvents : ProcessUpdate(E)

SpecMiddle == Init /\ [][NextMiddle]_vars

\* a middleware that stores "s1" for the sender ran
EnteredByMiddleware ==
    \E k \in MiddlewareCalls : middleware_handlers[trace[k].index].callback = "enter_s1"

\* the sender's state in the store when the middlewares are through
StateAfterMiddlewares == IF EnteredByMiddleware THEN "s1" ELSE last.was

\* an in-scope middleware before position i returned False
VetoedBefore(i) == \E j \in InScope : j < i /\ Returns(j) = "False"

\* C32: the middlewares in scope of the event's type run once each, in
\* registration order, until one returns False, and all of them before the
\* sender's state is read and any handler is checked; the state the handlers'
\* state filters are checked against is the state the store holds after the
\* middlewares, so a state a middleware wrote for this event counts; a
\* middleware whose update types exclude the event's type does not run, and
\* its veto does not stop the event.
C32_MiddlewaresRunBeforeStateIsResolved ==
    Processed =>
        /\ \A k, j \in MiddlewareCalls : k < j => trace[k].index < trace[j].index
        /\ \A i \in DOMAIN middleware_handlers :
              i \in MiddlewaresRun <=> (i \in InScope /\ ~VetoedBefore(i))
        /\ \A k \in MiddlewareCalls :
              \A j \in DOMAIN trace :
                  trace[j].kind \in {"get_state", "check", "handler"} => k < j
        /\ \A k \in StateReads : trace[k].state = StateAfterMiddlewares
        /\ \A k \in AllChecks :
              trace[k].result = "True"
                  <=> HandlerCheck(trace[k].list, HandlerAt(k), last.event,
                                   StateAfterMiddlewares)
        /\ (Category(last.event) # "none" /\ ~VetoedBefore(Len(middleware_handlers) + 1))
              => StateReads # {}

\* the sender had no state, a middleware stored "s1", and the handler that
\* admits only "s1" was invoked for the same event
C32_Witness ==
    /\ Processed
    /\ last.was = None
    /\ EnteredByMiddleware
    /\ \E k \in HandlerCalls :
          HandlerAt(k).state.declared /\ HandlerAt(k).state.names = {"s1"}

\* a vetoing middleware scoped to another event type was registered, did not
\* run, and the event reached a handler
C32_WitnessOutOfScope ==
    /\ Processed
    /\ \E i \in DOMAIN middleware_handlers :
          /\ middleware_handlers[i].callback = "veto"
          /\ i \notin InScope
          /\ i \notin MiddlewaresRun
    /\ HandlerCalls # {}

-----------------------------------------------------------------------------
(* A failed dispatch and the next fetch *)

\* an application that answers messages and whose middleware raises on the
\* events it is scoped to
RedeliverHandlerChoices ==
    {MessageHandler("reply", {}, {}, {}, {"unknown"}, {}, NoStateFilter)}

NextRedeliver ==
    \/ \E h \in RedeliverHandlerChoices : Registering /\ message_handler(h)
    \/ \E mw \in PollMiddlewareChoices : Registering /\ middleware_handler(mw)
    \/ AssignLpServer
    \/ \E ns \in BOOLEAN : Polling(ns)
    \/ WhileTest
    \/ Acquire
    \/ Fetch
    \/ Parse
    \/ DispatchNextRecorded
    \/ Advance
    \/ Sleep

SpecRedeliver == Init /\ [][NextRedeliver]_vars

\* C33: when the dispatch of an event of a batch raises in non-stop mode, the
\* loop goes to its sleep with the cursor where it was (or with the session
\* discarded), no later event of the batch is dispatched in that iteration,
\* and the fetch that follows is made with the cursor of the failed
\* iteration, so the events it had handled can be delivered again.
C33_FailedDispatchKeepsCursor ==
    [][/\ (pc = "for" /\ last'.op = "_process_update" /\ last'.result # "ok"
              /\ non_stop) =>
            /\ pc' = "sleep"
            /\ lp_server' = NoServer \/ lp_server' = lp_server
       /\ dispatched' # dispatched /\ dispatched' # << >> =>
            \A i \in DOMAIN dispatched : dispatched[i].result = "ok"
       /\ (pc = "fetch" /\ pc' # "fetch" /\ redelivery.failed) =>
            /\ lp_server # NoServer
            /\ lp_server.ts = redelivery.ts]_vars

\* the first event of a batch was handled, the second raised, and after the
\* sleep the same first event was fetched with the same cursor and handled
\* again
C33_Witness ==
    /\ pc = "for"
    /\ non_stop
    /\ redelivery.failed
    /\ redelivery.handled # << >>
    /\ lp_server.ts = redelivery.ts
    /\ dispatched # << >>
    /\ dispatched[1].update = redelivery.handled[1]
    /\ dispatched[1].result = "ok"
    /\ message_handlers # << >>

-----------------------------------------------------------------------------
(* The acquisition of the session *)

\* the errors of the event source: it cannot be reached, or it refuses
SourceErrors == {"ConnectionError", "VKAPIError"}

\* C34: an iteration that finds no cached session acquires one before it
\* fetches: the acquisition either gives a session, with which the iteration
\* goes on to fetch, or fails with an error of the event source, and then the
\* iteration neither fetches nor dispatches; an iteration that finds a cached
\* session fetches with it, unchanged.
C34_SessionAcquiredBeforeFetch ==
    [][/\ (pc = "try" /\ pc' # "try" /\ lp_server = NoServer) =>
            \/ lp_server' # NoServer /\ pc' = "fetch"
            \/ /\ lp_server' = NoServer
               /\ pc' \in {"sleep", "raised"}
               /\ last'.result \in SourceErrors
       /\ (pc = "try" /\ pc' # "try" /\ lp_server # NoServer) =>
            lp_server' = lp_server /\ pc' = "fetch"
       /\ pc = "fetch" => lp_server # NoServer]_vars

-----------------------------------------------------------------------------
(* get_next_states *)

\* the for loop of get_next_states: possible.add(trans.to_state) for each
\* transition from from_state or from '*' whose condition is absent or true
RECURSIVE CollectNext(_, _, _)
CollectNext(ts, from_state, u) ==
    IF ts = << >> THEN {}
    ELSE LET trans == Head(ts)
             possible == CollectNext(Tail(ts), from_state, u)
         IN  IF trans.from_state = from_state \/ trans.from_state = Wildcard
             THEN (IF trans.condition # "none"
                   THEN (IF Guard(trans.condition, u)
                         THEN possible \cup {trans.to_state}
                         ELSE possible)
                   ELSE possible \cup {trans.to_state})
             ELSE possible

\* a get_next_states that does not test whether from_state is declared
get_next_states_undeclared(from_state, u) ==
    CollectNext(transitions, from_state, u)

\* FiniteStateMachine.get_next_states: the elements of list(possible)
get_next_states(from_state, u) ==
    IF from_state \notin DOMAIN states THEN {}
    ELSE CollectNext(transitions, from_state, u)

\* the transitions offered to add_transition when the next states are asked
NextRules ==
    GateRules \cup
    {[from_state |-> Wildcard, to_state |-> "s2", condition |-> "true", priority |-> 0]}

\* fsm.get_next_states(from_state, context) for the context of u
GetNextStates(from_state, u) ==
    /\ last' = [op |-> "get_next_states", user |-> u, state |-> None,
                kw |-> EmptyDict, was |-> from_state, result |-> "ok",
                listed |-> get_next_states(from_state, u)]
    /\ UNCHANGED <<storeVars, fsmConfigVars, current_state, contexts,
                   registryVars, pollVars, writers, trace>>

\* StateContext.get_next_states: self._fsm.get_next_states(self.current, self)
CtxGetNextStates(u) ==
    /\ u \in contexts
    /\ GetNextStates(get_state(World, u), u)

NextIntrospect ==
    \/ \E n \in StateNames, i \in StateInfos : add_state(n, i)
    \/ \E r \in NextRules : add_transition(r)
    \/ \E u \in FsmUsers, s \in StateNames : BotSetState(u, s)
    \/ \E u \in FsmUsers : NewContext(u)
    \/ \E u \in FsmUsers, s \in StateNames : CtxSet(u, s)
    \/ \E u \in FsmUsers : CtxFinish(u)
    \/ \E from_state \in StateNames, u \in FsmUsers : GetNextStates(from_state, u)
    \/ \E u \in FsmUsers : CtxGetNextStates(u)

SpecIntrospect == Init /\ [][NextIntrospect]_vars

Listed == last.op = "get_next_states"

\* the transition leaves from_state, by name or by the wildcard, and its
\* guard is absent or true
Leaves(trans, from_state, u) ==
    /\ trans.from_state \in {from_state, Wildcard}
    /\ trans.condition = "none" \/ Guard(trans.condition, u)

\* C35: get_next_states(from, ctx) returns exactly the set of the to states
\* of the declared transitions whose source is from or the wildcard and whose
\* guard is absent or true; it is empty when from is not a declared state.
C35_NextStatesAreTargetsOfOpenTransitions ==
    Listed =>
        last.listed =
            IF last.was \in DOMAIN states
            THEN {transitions[i].to_state :
                    i \in {j \in DOMAIN transitions :
                             Leaves(transitions[j], last.was, last.user)}}
            ELSE {}

\* a wildcard-sourced transition contributed a state while a transition with
\* a false guard did not
C35_Witness ==
    /\ Listed
    /\ last.was \in DOMAIN states
    /\ \E i, j \in DOMAIN transitions :
          /\ transitions[i].from_state = Wildcard
          /\ transitions[i].to_state \in last.listed
          /\ transitions[j].from_state = last.was
          /\ transitions[j].condition = "false"
          /\ transitions[j].to_state \notin last.listed

\* an undeclared source lists nothing although a transition leaves it
C35_WitnessUndeclared ==
    /\ Listed
    /\ last.was \notin DOMAIN states
    /\ \E i \in DOMAIN transitions : Leaves(transitions[i], last.was, last.user)
    /\ last.listed = {}

\* C36: every state get_next_states(s, ctx) returns satisfies
\* can_transition(s, t, ctx), so StateContext.set(t) is accepted for every t
\* that StateContext.get_next_states() lists.
C36_ListedStatesAreAccepted ==
    Listed => \A t \in last.listed : can_transition(last.was, t, last.user)

CtxSetCalled == last.op = "set"

\* C37: for a user whose stored state is none, StateContext.set(t) is
\* rejected with ValueError for every target t, whatever states and
\* transitions are declared, and the stored state stays none.
C37_SetFromNoStateIsRejected ==
    (CtxSetCalled /\ last.was = None) =>
        /\ last.result = "ValueError"
        /\ _states[last.user] = None

\* the target is declared and a transition from the wildcard with no false
\* guard leads to it, and set was rejected
C37_Witness ==
    /\ CtxSetCalled
    /\ last.was = None
    /\ last.state \in DOMAIN states
    /\ \E i \in DOMAIN transitions :
          /\ transitions[i].from_state = Wildcard
          /\ transitions[i].to_state = last.state
          /\ transitions[i].condition # "false"
    /\ last.result = "ValueError"
    /\ _states[last.user] = None

\* no transition is declared and set was rejected
C37_WitnessOpen ==
    /\ CtxSetCalled
    /\ last.was = None
    /\ last.state \in DOMAIN states
    /\ transitions = << >>
    /\ last.result = "ValueError"

\* C38: StateContext.set(t) succeeds only if t is a declared state: a set
\* that succeeds from a declared stored state stores a declared state.
C38_SetStoresOnlyDeclaredStates ==
    (CtxSetCalled /\ last.result = "ok" /\ last.was \in DOMAIN states) =>
        _states[last.user] \in DOMAIN states

-----------------------------------------------------------------------------
(* One handler at a time, working through the StateContext it was given *)

\* the transitions declared by the application of the sequential model
SequentialRules ==
    {[from_state |-> "s1", to_state |-> "s2", condition |-> "none", priority |-> 0],
     [from_state |-> "s2", to_state |-> Wildcard, condition |-> "true", priority |-> 1]}

\* application code outside the handlers: bot.set_state(user_id, state)
OutsideSetState(u, s) == contexts = {} /\ BotSetState(u, s)

\* _process_update resolves the sender, builds the StateContext and calls
\* the handler with it
HandlerStart(u) == contexts = {} /\ NewContext(u)

\* the handler returns; _process_update drops the context
HandlerReturn ==
    /\ contexts # {}
    /\ contexts' = {}
    /\ Step("return", NoneId, None, EmptyDict, World)
    /\ UNCHANGED fsmConfigVars

\* state.update(**kwargs) in the running handler
CtxUpdate(u, kw) == u \in contexts /\ UpdateData(u, kw)

\* state.clear_data() in the running handler
CtxClearData(u) == u \in contexts /\ ClearData(u)

\* the application declares its FSM before any user has a state
Declaring == contexts = {} /\ \A u \in Users : _states[u] = None

NextSequential ==
    \/ \E n \in StateNames :
          Declaring /\ add_state(n, [group |-> "g", on_enter |-> TRUE,
                                     on_exit |-> TRUE])
    \/ \E r \in SequentialRules : Declaring /\ add_transition(r)
    \/ Declaring /\ SetOnAnyTransition
    \/ \E u \in Users, s \in StateNames : OutsideSetState(u, s)
    \/ \E u \in Users : HandlerStart(u)
    \/ HandlerReturn
    \/ \E u \in Users, s \in StateNames : CtxSet(u, s)
    \/ \E u \in Users : CtxFinish(u)
    \/ \E u \in Users : CtxUpdate(u, ("a" :> 1))
    \/ \E u \in Users : CtxClearData(u)

SpecSequential == Init /\ [][NextSequential]_vars

\* the calls a handler makes on its StateContext
ContextCalls == {"set", "finish", "update_data", "clear_data"}

\* C39: while a handler of user u runs (one handler at a time, each touching
\* state only through the StateContext it was given), the scratch pointer of
\* the shared FSM equals u's stored state before and after every set, finish,
\* update and clear_data call, and the exit hook finish runs is the one of
\* u's own stored state.
C39_PointerFollowsRunningUser ==
    [][\A u \in contexts :
          (last'.op \in ContextCalls /\ last'.user = u) =>
             /\ current_state = _states[u]
             /\ current_state' = _states'[u]
             /\ last'.op = "finish" =>
                   \A k \in DOMAIN trace' :
                      trace'[k].hook = "on_exit" => trace'[k].state = _states[u]]_vars

\* finish in a handler of one user ran the exit hook of that user's state
\* while the other user is in another state
C39_Witness ==
    /\ last.op = "finish"
    /\ last.user \in contexts
    /\ \E k \in DOMAIN trace :
          trace[k].hook = "on_exit" /\ trace[k].state = last.was
    /\ \E v \in Users \ {last.user} : _states[v] \notin {None, last.was}

\* an accepted set in a handler of one user while the other user is in
\* another state
C39_WitnessSet ==
    /\ last.op = "set"
    /\ last.result = "ok"
    /\ last.user \in contexts
    /\ current_state = last.state
    /\ \E v \in Users \ {last.user} : _states[v] \notin {None, last.was, last.state}

-----------------------------------------------------------------------------
(* The categories of handlers *)

\* the trace entries of the kinds given, after the step
EntriesAfter(kinds) == {k \in DOMAIN trace' : trace'[k].kind \in kinds}

\* the middlewares in scope of event E that _process_update reaches: those
\* with no in-scope middleware returning False before them
ReachedInScope(E) ==
    LET scope == {i \in DOMAIN middleware_handlers :
                     MiddlewareHandler_check(middleware_handlers[i], E)}
    IN  {i \in scope :
            \A j \in scope :
               j < i => MiddlewareReturn(middleware_handlers[j].callback, E) # "False"}

\* C40: the categories of handlers are disjoint.  A message event invokes no
\* callback handler and a callback event no message handler; an event of any
\* other type invokes no handler, has no handler checked, and makes
\* _process_update read and write nothing of the state store, while the
\* middlewares in scope of it still run.
C40_HandlerCategoriesAreDisjoint ==
    [][last'.op = "_process_update" =>
          LET E == last'.event
          IN  /\ E.type = "message_new" =>
                    \A k \in EntriesAfter({"handler", "check"}) :
                       trace'[k].list = "message"
              /\ E.type = "message_event" =>
                    \A k \in EntriesAfter({"handler", "check"}) :
                       trace'[k].list = "callback"
              /\ E.type \notin {"message_new", "message_event"} =>
                    /\ EntriesAfter({"handler", "check", "get_state"}) = {}
                    /\ UNCHANGED <<storeVars, current_state>>
                    /\ {trace'[k].index : k \in EntriesAfter({"middleware"})} =
                          ReachedInScope(E)]_vars

\* an event that is neither a message nor a callback went through a
\* middleware and reached no handler, with handlers of both lists registered
C40_Witness ==
    /\ Processed
    /\ last.event.type \notin {"message_new", "message_event"}
    /\ MiddlewareCalls # {}
    /\ message_handlers # << >>
    /\ callback_query_handlers # << >>
    /\ HandlerCalls = {}
    /\ StateReads = {}

\* a callback event was handled by a callback handler registered after a
\* message handler
C40_WitnessCallback ==
    /\ Processed
    /\ last.event.type = "message_event"
    /\ message_handlers # << >>
    /\ \E k \in HandlerCalls : trace[k].list = "callback"

====
